---- MODULE Spec2Model ----
(***************************************************************************)
(* Matching, collateral and fee engine of the chain database:              *)
(* limit orders, call orders (CDPs), force settlements, global settlement  *)
(* and revival, market-fee routing, and the asset evaluators that drive    *)
(* them.  Each operation is one atomic action: the evaluator and every     *)
(* database call it makes are evaluated on a record of the database, and   *)
(* the result is committed unless an assertion failed on the way.          *)
(***************************************************************************)
EXTENDS Integers, Sequences, FiniteSets, TLC

\* ------------------------------------------------------------------ bounds
\* Number of operations in one behaviour.
MaxOps == 4

\* ------------------------------------------------------------- constants
GRAPHENE_100_PERCENT == 10000
\* The chain's value is 10^15; it is scaled to fit TLC's 32-bit integers.
\* Every amount of the model stays far below either value.
GRAPHENE_MAX_SHARE_SUPPLY == 1000000000
GRAPHENE_COLLATERAL_RATIO_DENOM == 1000

CORE == "CORE"       \* asset_id_type(): the core asset
MIA  == "MIA"        \* a market-issued asset backed by CORE
Assets == {CORE, MIA}

GRAPHENE_COMMITTEE_ACCOUNT == "committee"
GRAPHENE_TEMP_ACCOUNT == "temp"
Traders  == {"alice", "bob"}
Accounts == Traders \cup {"issuer", GRAPHENE_COMMITTEE_ACCOUNT, GRAPHENE_TEMP_ACCOUNT}

\* ------------------------------------------------- share amounts, prices
Min(a, b) == IF a <= b THEN a ELSE b
Max(a, b) == IF a >= b THEN a ELSE b

RECURSIVE GCD(_, _)
GCD(a, b) == IF b = 0 THEN a ELSE GCD(b, a % b)

Asset(amt, id) == [amount |-> amt, asset_id |-> id]
Price(b, q) == [base |-> b, quote |-> q]

\* price(): both legs zero
NullPrice == Price(Asset(0, CORE), Asset(0, CORE))
is_null(p) == p = NullPrice

\* operator~ : the same price with its legs swapped
Inv(p) == Price(p.quote, p.base)

\* asset * price, rounding down
MulDown(a, p) ==
    IF a.asset_id = p.base.asset_id
    THEN Asset((a.amount * p.quote.amount) \div p.base.amount, p.quote.asset_id)
    ELSE Asset((a.amount * p.base.amount) \div p.quote.amount, p.base.asset_id)

\* asset::multiply_and_round_up
MulUp(a, p) ==
    IF a.asset_id = p.base.asset_id
    THEN Asset((a.amount * p.quote.amount + p.base.amount - 1) \div p.base.amount,
               p.quote.asset_id)
    ELSE Asset((a.amount * p.base.amount + p.quote.amount - 1) \div p.quote.amount,
               p.base.asset_id)

\* price comparison by cross-multiplication (both prices of the same pair,
\* written the same way round)
PriceLT(a, b) == a.base.amount * b.quote.amount < b.base.amount * a.quote.amount
PriceLE(a, b) == a.base.amount * b.quote.amount <= b.base.amount * a.quote.amount
PriceGT(a, b) == PriceLT(b, a)
PriceGE(a, b) == PriceLE(b, a)
PriceEQ(a, b) == a.base.amount * b.quote.amount = b.base.amount * a.quote.amount

\* price * ratio_type(num, den): a rational product, kept in lowest terms
PriceTimesRatio(p, num, den) ==
    IF num = den THEN p
    ELSE LET n == p.base.amount * num
             d == p.quote.amount * den
             g == GCD(n, d)
         IN  Price(Asset(n \div g, p.base.asset_id), Asset(d \div g, p.quote.asset_id))

\* detail::calculate_percent: ok is FALSE when the overflow assertion fails
calculate_percent_ok(value, percent) ==
    (value * percent) \div GRAPHENE_100_PERCENT <= GRAPHENE_MAX_SHARE_SUPPLY
calculate_percent(value, percent) ==
    (value * percent) \div GRAPHENE_100_PERCENT

\* ------------------------------------------- the 128-bit intermediate
\* An unsigned integer wider than the checker's own is a sequence of digits
\* to LimbBase, lowest first, without zero digits at the top (0 is <<>>).
LimbBase == 10000

RECURSIVE ToLimbs(_)
ToLimbs(n) == IF n = 0 THEN <<>> ELSE <<n % LimbBase>> \o ToLimbs(n \div LimbBase)

RECURSIVE FromLimbs(_)
FromLimbs(l) == IF l = <<>> THEN 0 ELSE Head(l) + LimbBase * FromLimbs(Tail(l))

RECURSIVE Trim(_)
Trim(l) == IF l = <<>> THEN <<>>
           ELSE IF l[Len(l)] = 0 THEN Trim(SubSeq(l, 1, Len(l) - 1))
           ELSE l

\* l * m + carry, for m and carry within 16 bits
RECURSIVE MulAdd(_, _, _)
MulAdd(l, m, carry) ==
    IF l = <<>> THEN ToLimbs(carry)
    ELSE LET d == Head(l) * m + carry
         IN  <<d % LimbBase>> \o MulAdd(Tail(l), m, d \div LimbBase)

\* l / d rounded down, for d of at most LimbBase: long division from the top
RECURSIVE DivFrom(_, _, _)
DivFrom(l, d, rem) ==
    IF l = <<>> THEN <<>>
    ELSE LET cur == rem * LimbBase + l[Len(l)]
         IN  DivFrom(SubSeq(l, 1, Len(l) - 1), d, cur % d) \o <<cur \div d>>

DivSmall(l, d) == Trim(DivFrom(l, d, 0))

RECURSIVE LimbLT(_, _)
LimbLT(a, b) ==
    IF Len(a) /= Len(b) THEN Len(a) < Len(b)
    ELSE IF a = <<>> THEN FALSE
    ELSE IF a[Len(a)] /= b[Len(b)] THEN a[Len(a)] < b[Len(b)]
    ELSE LimbLT(Trim(SubSeq(a, 1, Len(a) - 1)), Trim(SubSeq(b, 1, Len(b) - 1)))

LimbLE(a, b) == ~LimbLT(b, a)

\* a - b for a >= b
RECURSIVE SubFrom(_, _, _)
SubFrom(a, b, borrow) ==
    IF a = <<>> THEN <<>>
    ELSE LET d == Head(a) - (IF b = <<>> THEN 0 ELSE Head(b)) - borrow
         IN  <<(d + LimbBase) % LimbBase>>
                 \o SubFrom(Tail(a), IF b = <<>> THEN <<>> ELSE Tail(b),
                            IF d < 0 THEN 1 ELSE 0)

LimbSub(a, b) == Trim(SubFrom(a, b, 0))

\* 2^128 = 340282366920938463463374607431768211456
TwoTo128 == <<1456, 6821, 4317, 4607, 6337, 4634, 938, 6692, 2823, 340>>

\* fc::uint128_t keeps a value modulo 2^128
RECURSIVE Wrap128(_)
Wrap128(l) == IF LimbLT(l, TwoTo128) THEN l ELSE Wrap128(LimbSub(l, TwoTo128))

\* calculate_percent that fails for a result of GRAPHENE_MAX_SHARE_SUPPLY too
calculate_percent_fails_at_max(value, percent) ==
    LET a0 == Wrap128(value)
        a1 == Wrap128(Trim(MulAdd(a0, percent, 0)))
        a2 == DivSmall(a1, GRAPHENE_100_PERCENT)
    IN  [ok |-> LimbLT(a2, ToLimbs(GRAPHENE_MAX_SHARE_SUPPLY)),
         value |-> a2, intermediate |-> a1]

\* detail::calculate_percent on a share amount given by its digits, with the
\* fc::uint128_t it computes in: ok is FALSE when the overflow assertion
\* fails, intermediate is a after a *= percent
calculate_percent_uint128(value, percent) ==
    LET a0 == Wrap128(value)
        a1 == Wrap128(Trim(MulAdd(a0, percent, 0)))
        a2 == DivSmall(a1, GRAPHENE_100_PERCENT)
    IN  [ok |-> LimbLE(a2, ToLimbs(GRAPHENE_MAX_SHARE_SUPPLY)),
         value |-> a2, intermediate |-> a1]

\* --------------------------------------------------------- price feed
\* A feed is [settlement_price, maintenance_collateral_ratio,
\* maximum_short_squeeze_ratio]; settlement_price is debt / collateral.
Feed(sp, mcr, mssr) ==
    [settlement_price |-> sp, maintenance_collateral_ratio |-> mcr,
     maximum_short_squeeze_ratio |-> mssr]

\* price_feed::max_short_squeeze_price
max_short_squeeze_price(f) ==
    PriceTimesRatio(f.settlement_price, GRAPHENE_COLLATERAL_RATIO_DENOM,
                    f.maximum_short_squeeze_ratio)

\* MSSR less the margin call fee ratio, never below the denominator
margin_call_price_numerator(f, mcfr) ==
    IF f.maximum_short_squeeze_ratio - mcfr > GRAPHENE_COLLATERAL_RATIO_DENOM
    THEN f.maximum_short_squeeze_ratio - mcfr
    ELSE GRAPHENE_COLLATERAL_RATIO_DENOM

\* price_feed::margin_call_order_price
margin_call_order_price(f, mcfr) ==
    PriceTimesRatio(f.settlement_price, GRAPHENE_COLLATERAL_RATIO_DENOM,
                    margin_call_price_numerator(f, mcfr))

\* margin_call_pays_ratio as before BSIP-74: 1/1 whatever the fee ratio
margin_call_pays_ratio_unset(f, mcfr) ==
    [num |-> GRAPHENE_COLLATERAL_RATIO_DENOM, den |-> GRAPHENE_COLLATERAL_RATIO_DENOM]

\* price_feed::margin_call_pays_ratio, as [num, den]
margin_call_pays_ratio(f, mcfr) ==
    [num |-> margin_call_price_numerator(f, mcfr),
     den |-> f.maximum_short_squeeze_ratio]

\* price_feed::maintenance_collateralization (collateral / debt)
maintenance_collateralization(f) ==
    IF is_null(f.settlement_price) THEN NullPrice
    ELSE PriceTimesRatio(Inv(f.settlement_price), f.maintenance_collateral_ratio,
                         GRAPHENE_COLLATERAL_RATIO_DENOM)

\* ------------------------------------------------------------------ state
VARIABLES
    balance,        \* account -> asset -> amount (account_balance_object)
    vesting,        \* account -> asset -> market-fee vesting balance
    statistics,     \* account -> [total_core_in_orders, pending_fees]
    dynamic_data,   \* asset -> asset_dynamic_data_object
    bitasset_data,  \* MIA -> asset_bitasset_data_object
    limit_orders,   \* id -> limit_order_object
    call_orders,    \* id -> call_order_object
    settle_orders,  \* id -> force_settlement_object
    next_id,        \* the next object id
    asset_options,  \* asset -> asset_object: issuer and options
    accounts,       \* account -> [registrar, referrer, referrer_rewards_percentage]
    authorized,     \* account -> asset -> is_authorized_asset
    global_params,  \* chain parameters and the fee schedule
    last_op,        \* the operation just applied: inputs, outcome, virtual ops, log
    op_count        \* operations applied so far

cfgvars == <<asset_options, accounts, authorized, global_params>>
dbvars == <<balance, vesting, statistics, dynamic_data, bitasset_data,
            limit_orders, call_orders, settle_orders, next_id>>
vars == <<dbvars, cfgvars, last_op, op_count>>

\* optional<T>
None == [valid |-> FALSE, value |-> 0]
Some(v) == [valid |-> TRUE, value |-> v]

\* The database as one record, threaded through the calls of an operation.
\* err is set by a failed assertion (an exception); ret is the value returned
\* by the last call; vops are the virtual operations pushed so far, which an
\* exception discards; log is what elog has written, which it does not.
DB == [bal |-> balance, vest |-> vesting, stats |-> statistics, dyn |-> dynamic_data,
       bit |-> bitasset_data, lim |-> limit_orders, calls |-> call_orders,
       settles |-> settle_orders, nid |-> next_id,
       vops |-> <<>>, log |-> <<>>, err |-> FALSE, ret |-> 0]

Fail(s) == [s EXCEPT !.err = TRUE]
Ret(s, v) == [s EXCEPT !.ret = v]

\* elog
elog(s, entry) == [s EXCEPT !.log = Append(@, entry)]

\* function f without key k
Drop(f, k) == [x \in DOMAIN f \ {k} |-> f[x]]

\* bind a value to a name: Then(v, LAMBDA x : e) is e with x = v
Then(v, Op(_)) == Op(v)

is_market_issued(a) == a \in DOMAIN bitasset_data
charges_market_fees(a) == asset_options[a].charge_market_fee

\* database::adjust_balance: a debit needs the funds
adjust_balance(s, acc, a) ==
    IF s.err THEN s
    ELSE IF a.amount = 0 THEN s
    ELSE IF s.bal[acc][a.asset_id] + a.amount < 0 THEN Fail(s)
    ELSE [s EXCEPT !.bal[acc][a.asset_id] = @ + a.amount]

\* database::deposit_market_fee_vesting_balance
deposit_market_fee_vesting_balance(s, acc, a) ==
    IF s.err THEN s ELSE [s EXCEPT !.vest[acc][a.asset_id] = @ + a.amount]

\* account_statistics_object::pay_fee: core fees wait in the account's bucket
pay_fee(s, acc, amt) ==
    IF s.err THEN s ELSE [s EXCEPT !.stats[acc].pending_fees = @ + amt]

\* asset_object::accumulate_fee: fees in the asset itself go to accumulated_fees,
\* fees in its backing asset to accumulated_collateral_fees
can_accumulate_fee(s, container, fee) ==
    \/ fee.asset_id = container
    \/ /\ container \in DOMAIN s.bit
       /\ s.bit[container].options.short_backing_asset = fee.asset_id

accumulate_fee(s, container, fee) ==
    IF s.err THEN s
    ELSE IF fee.asset_id = container
         THEN [s EXCEPT !.dyn[container].accumulated_fees = @ + fee.amount]
    ELSE IF can_accumulate_fee(s, container, fee)
         THEN [s EXCEPT !.dyn[container].accumulated_collateral_fees = @ + fee.amount]
    ELSE Fail(s)

is_authorized_asset(acc, a) == authorized[acc][a]

\* ----------------------------------------------------------- fee engine
\* calculate_market_fee that charges a taker the maker's percentage
calculate_market_fee_maker_percent(trade_asset, trade_amount, is_maker) ==
    LET o == asset_options[trade_asset]
        fee_percent == o.market_fee_percent
        value == calculate_percent(trade_amount.amount, fee_percent)
    IN  IF ~charges_market_fees(trade_asset) THEN [ok |-> TRUE, fee |-> 0]
        ELSE IF o.market_fee_percent = 0 THEN [ok |-> TRUE, fee |-> 0]
        ELSE IF ~calculate_percent_ok(trade_amount.amount, fee_percent)
             THEN [ok |-> FALSE, fee |-> 0]
        ELSE [ok |-> TRUE,
              fee |-> IF value > o.max_market_fee THEN o.max_market_fee ELSE value]

\* database::calculate_market_fee, as [ok, fee]
calculate_market_fee(trade_asset, trade_amount, is_maker) ==
    LET o == asset_options[trade_asset]
        taker == o.taker_fee_percent
        fee_percent == IF is_maker THEN o.market_fee_percent
                       ELSE IF taker.valid THEN taker.value ELSE o.market_fee_percent
        value == calculate_percent(trade_amount.amount, fee_percent)
    IN  IF ~charges_market_fees(trade_asset) THEN [ok |-> TRUE, fee |-> 0]
        ELSE IF is_maker /\ o.market_fee_percent = 0 THEN [ok |-> TRUE, fee |-> 0]
        ELSE IF ~is_maker /\ taker.valid /\ taker.value = 0 THEN [ok |-> TRUE, fee |-> 0]
        ELSE IF ~calculate_percent_ok(trade_amount.amount, fee_percent)
             THEN [ok |-> FALSE, fee |-> 0]
        ELSE [ok |-> TRUE,
              fee |-> IF value > o.max_market_fee THEN o.max_market_fee ELSE value]

\* pay_rewards that withholds the slice of a referrer who may not hold the
\* asset from the registrar as well, and leaves it to the asset
pay_rewards_forfeits_referrer(s, seller, recv_asset, issuer_fees) ==
    LET o == asset_options[recv_asset]
        white_list == o.whitelist_market_fee_sharing
        is_rewards_allowed ==
            /\ seller /= "null"
            /\ \/ ~white_list.valid
               \/ white_list.value = {}
               \/ accounts[seller].registrar \in white_list.value
        reward_percent == o.reward_percent
        reward_value == calculate_percent(issuer_fees, reward_percent.value)
        registrar == IF accounts[seller].registrar = GRAPHENE_TEMP_ACCOUNT
                     THEN GRAPHENE_COMMITTEE_ACCOUNT ELSE accounts[seller].registrar
        referrer == IF accounts[seller].referrer = GRAPHENE_TEMP_ACCOUNT
                    THEN GRAPHENE_COMMITTEE_ACCOUNT ELSE accounts[seller].referrer
        referrer_rewards_value ==
            calculate_percent(reward_value, accounts[seller].referrer_rewards_percentage)
        pay_referrer == /\ referrer /= registrar
                        /\ referrer_rewards_value > 0
                        /\ is_authorized_asset(referrer, recv_asset)
        cut_referrer == referrer /= registrar /\ referrer_rewards_value > 0
        registrar_reward == IF cut_referrer THEN reward_value - referrer_rewards_value
                            ELSE reward_value
    IN  IF ~(is_rewards_allowed /\ reward_percent.valid /\ reward_percent.value /= 0)
        THEN Ret(s, 0)
        ELSE IF ~calculate_percent_ok(issuer_fees, reward_percent.value) THEN Fail(s)
        ELSE IF ~(reward_value > 0
                  /\ is_authorized_asset(accounts[seller].registrar, recv_asset))
        THEN Ret(s, 0)
        ELSE IF reward_value > issuer_fees THEN Fail(s)
        ELSE IF pay_referrer /\ referrer_rewards_value > reward_value THEN Fail(s)
        ELSE
        Then(IF pay_referrer
             THEN deposit_market_fee_vesting_balance(
                      s, referrer, Asset(referrer_rewards_value, recv_asset))
             ELSE s, LAMBDA s1 :
        Then(IF registrar_reward > 0
             THEN deposit_market_fee_vesting_balance(
                      s1, registrar, Asset(registrar_reward, recv_asset))
             ELSE s1, LAMBDA s2 :
        Ret(s2, IF cut_referrer /\ ~pay_referrer
                THEN reward_value - referrer_rewards_value ELSE reward_value)))

\* the reward part of pay_market_fees: pays the referrer and the registrar and
\* returns the reward in ret
pay_rewards(s, seller, recv_asset, issuer_fees) ==
    LET o == asset_options[recv_asset]
        white_list == o.whitelist_market_fee_sharing
        is_rewards_allowed ==
            /\ seller /= "null"
            /\ \/ ~white_list.valid
               \/ white_list.value = {}
               \/ accounts[seller].registrar \in white_list.value
        reward_percent == o.reward_percent
        reward_value == calculate_percent(issuer_fees, reward_percent.value)
        registrar == IF accounts[seller].registrar = GRAPHENE_TEMP_ACCOUNT
                     THEN GRAPHENE_COMMITTEE_ACCOUNT ELSE accounts[seller].registrar
        referrer == IF accounts[seller].referrer = GRAPHENE_TEMP_ACCOUNT
                    THEN GRAPHENE_COMMITTEE_ACCOUNT ELSE accounts[seller].referrer
        referrer_rewards_value ==
            calculate_percent(reward_value, accounts[seller].referrer_rewards_percentage)
        pay_referrer == /\ referrer /= registrar
                        /\ referrer_rewards_value > 0
                        /\ is_authorized_asset(referrer, recv_asset)
        registrar_reward == IF pay_referrer THEN reward_value - referrer_rewards_value
                            ELSE reward_value
    IN  IF ~(is_rewards_allowed /\ reward_percent.valid /\ reward_percent.value /= 0)
        THEN Ret(s, 0)
        ELSE IF ~calculate_percent_ok(issuer_fees, reward_percent.value) THEN Fail(s)
        ELSE IF ~(reward_value > 0
                  /\ is_authorized_asset(accounts[seller].registrar, recv_asset))
        THEN Ret(s, 0)
        ELSE IF reward_value > issuer_fees THEN Fail(s)
        ELSE IF pay_referrer /\ referrer_rewards_value > reward_value THEN Fail(s)
        ELSE
        Then(IF pay_referrer
             THEN deposit_market_fee_vesting_balance(
                      s, referrer, Asset(referrer_rewards_value, recv_asset))
             ELSE s, LAMBDA s1 :
        Then(IF registrar_reward > 0
             THEN deposit_market_fee_vesting_balance(
                      s1, registrar, Asset(registrar_reward, recv_asset))
             ELSE s1, LAMBDA s2 :
        Ret(s2, reward_value)))

\* pay_market_fees that credits the asset with the issuer's whole share, the
\* reward paid out included
pay_market_fees_keeps_reward(s, seller, recv_asset, receives, is_maker) ==
    IF s.err THEN s
    ELSE
    Then(calculate_market_fee(recv_asset, receives, is_maker), LAMBDA cm :
    LET market_fees == cm.fee
        network_percent == global_params.market_fee_network_percent
        share_network == market_fees > 0 /\ network_percent > 0
    IN
    Then(IF share_network THEN calculate_percent(market_fees, network_percent) ELSE 0,
         LAMBDA network_fees_amt :
    LET issuer_fees == market_fees - network_fees_amt
    IN  IF ~cm.ok \/ market_fees > receives.amount THEN Fail(s)
        ELSE IF share_network /\ network_fees_amt > market_fees THEN Fail(s)
        ELSE
        Then(IF network_fees_amt > 0
             THEN deposit_market_fee_vesting_balance(
                      s, GRAPHENE_COMMITTEE_ACCOUNT, Asset(network_fees_amt, recv_asset))
             ELSE s, LAMBDA s1 :
        Then(IF issuer_fees > 0
             THEN pay_rewards(s1, seller, recv_asset, issuer_fees)
             ELSE Ret(s1, 0), LAMBDA s2 :
        LET reward == s2.ret
        IN  IF s2.err THEN s2
            ELSE IF issuer_fees > 0 /\ issuer_fees > reward
                 THEN Ret([s2 EXCEPT !.dyn[recv_asset].accumulated_fees =
                                          @ + issuer_fees], market_fees)
            ELSE Ret(s2, market_fees)))))

\* database::pay_market_fees; the fee charged is returned in ret
pay_market_fees(s, seller, recv_asset, receives, is_maker) ==
    IF s.err THEN s
    ELSE
    Then(calculate_market_fee(recv_asset, receives, is_maker), LAMBDA cm :
    LET market_fees == cm.fee
        network_percent == global_params.market_fee_network_percent
        share_network == market_fees > 0 /\ network_percent > 0
    IN
    Then(IF share_network THEN calculate_percent(market_fees, network_percent) ELSE 0,
         LAMBDA network_fees_amt :
    LET issuer_fees == market_fees - network_fees_amt
    IN  IF ~cm.ok \/ market_fees > receives.amount THEN Fail(s)
        ELSE IF share_network /\ network_fees_amt > market_fees THEN Fail(s)
        ELSE
        Then(IF network_fees_amt > 0
             THEN deposit_market_fee_vesting_balance(
                      s, GRAPHENE_COMMITTEE_ACCOUNT, Asset(network_fees_amt, recv_asset))
             ELSE s, LAMBDA s1 :
        Then(IF issuer_fees > 0
             THEN pay_rewards(s1, seller, recv_asset, issuer_fees)
             ELSE Ret(s1, 0), LAMBDA s2 :
        LET reward == s2.ret
        IN  IF s2.err THEN s2
            ELSE IF issuer_fees > 0 /\ issuer_fees > reward
                 THEN Ret([s2 EXCEPT !.dyn[recv_asset].accumulated_fees =
                                          @ + (issuer_fees - reward)], market_fees)
            ELSE Ret(s2, market_fees)))))

\* pay_force_settle_fees that charges the fee and credits it to no bucket
pay_force_settle_fees_uncredited(s, collecting_asset, collat_receives) ==
    IF s.err THEN s
    ELSE
    LET pct == s.bit[collecting_asset].options.force_settle_fee_percent
        value == calculate_percent(collat_receives.amount, pct.value)
    IN  IF collecting_asset = collat_receives.asset_id THEN Fail(s)
        ELSE IF ~pct.valid \/ pct.value = 0 THEN Ret(s, 0)
        ELSE IF ~calculate_percent_ok(collat_receives.amount, pct.value) THEN Fail(s)
        ELSE IF value > 0 THEN Ret(s, value)
        ELSE Ret(s, 0)

\* database::pay_force_settle_fees; the fee is returned in ret
pay_force_settle_fees(s, collecting_asset, collat_receives) ==
    IF s.err THEN s
    ELSE
    LET pct == s.bit[collecting_asset].options.force_settle_fee_percent
        value == calculate_percent(collat_receives.amount, pct.value)
    IN  IF collecting_asset = collat_receives.asset_id THEN Fail(s)
        ELSE IF ~pct.valid \/ pct.value = 0 THEN Ret(s, 0)
        ELSE IF ~calculate_percent_ok(collat_receives.amount, pct.value) THEN Fail(s)
        ELSE IF value > 0
             THEN Ret(accumulate_fee(s, collecting_asset,
                                     Asset(value, collat_receives.asset_id)), value)
        ELSE Ret(s, 0)

\* pay_order that leaves total_core_in_orders alone
pay_order_no_statistics(s, receiver, receives, pays) ==
    IF s.err THEN s ELSE adjust_balance(s, receiver, receives)

\* database::pay_order
pay_order(s, receiver, receives, pays) ==
    IF s.err THEN s
    ELSE adjust_balance(
             IF pays.asset_id = CORE
             THEN [s EXCEPT !.stats[receiver].total_core_in_orders = @ - pays.amount]
             ELSE s,
             receiver, receives)

\* ------------------------------------------------------- order objects
amount_for_sale(o) == Asset(o.for_sale, o.sell_price.base.asset_id)
amount_to_receive(o) == MulDown(amount_for_sale(o), o.sell_price)
sell_asset_id(o) == o.sell_price.base.asset_id
receive_asset_id(o) == o.sell_price.quote.asset_id

get_debt(c) == Asset(c.debt, c.debt_type)
get_collateral(c) == Asset(c.collateral, c.collateral_type)
\* call_order_object::collateralization: collateral / debt
collateralization(c) == Price(get_collateral(c), get_debt(c))

push_applied_operation(s, vop) ==
    IF s.err THEN s ELSE [s EXCEPT !.vops = Append(@, vop)]

\* database::cancel_settle_order
cancel_settle_order(s, id, create_virtual_op) ==
    IF s.err THEN s
    ELSE
    LET order == s.settles[id] IN
    Then(adjust_balance(s, order.owner, order.balance), LAMBDA s1 :
    Then(IF create_virtual_op
         THEN push_applied_operation(s1,
                  [type |-> "asset_settle_cancel", id |-> id,
                   account |-> order.owner, amount |-> order.balance])
         ELSE s1, LAMBDA s2 :
    IF s2.err THEN s2 ELSE [s2 EXCEPT !.settles = Drop(@, id)]))

\* cancel_limit_order that refunds the order's funds and leaves the seller's
\* total_core_in_orders as it was
cancel_limit_order_keeps_total(s, id, create_virtual_op, skip_cancel_fee) ==
    IF s.err THEN s
    ELSE
    LET order == s.lim[id]
        seller == order.seller
        paid == order.deferred_paid_fee
        deduct == create_virtual_op /\ ~skip_cancel_fee /\ order.deferred_fee > 0
        \* the fee schedule's cancel fee, capped by the deferred fee
        core_cancel_fee == IF deduct
                           THEN Min(global_params.cancel_fee, order.deferred_fee)
                           ELSE 0
        charged == core_cancel_fee > 0
        deferred_fee == order.deferred_fee - core_cancel_fee
        \* round_up( paid_fee * core_cancel_fee / deferred_core_fee_before_deduct )
        cancel_fee_amount ==
            IF charged /\ paid.amount /= 0
            THEN (paid.amount * core_cancel_fee + order.deferred_fee - 1)
                     \div order.deferred_fee
            ELSE 0
        deferred_paid_fee == Asset(paid.amount - cancel_fee_amount, paid.asset_id)
        vop_fee == IF ~charged THEN Asset(0, CORE)
                   ELSE IF paid.amount = 0 THEN Asset(core_cancel_fee, CORE)
                   ELSE Asset(cancel_fee_amount, paid.asset_id)
        refunded == amount_for_sale(order)
    IN
    Then(IF charged THEN pay_fee(s, seller, core_cancel_fee) ELSE s, LAMBDA s1 :
    Then(IF charged /\ paid.amount /= 0
         THEN [s1 EXCEPT !.dyn[paid.asset_id].accumulated_fees = @ + cancel_fee_amount]
         ELSE s1, LAMBDA s2 :
    Then(s2, LAMBDA s3 :
    Then(adjust_balance(s3, seller, refunded), LAMBDA s4 :
    Then(IF paid.amount = 0
         THEN adjust_balance(s4, seller, Asset(deferred_fee, CORE))
         ELSE adjust_balance(
                  [s4 EXCEPT !.dyn[paid.asset_id].fee_pool = @ + deferred_fee],
                  seller, deferred_paid_fee), LAMBDA s5 :
    Then(IF create_virtual_op
         THEN push_applied_operation(s5,
                  [type |-> "limit_order_cancel", id |-> id,
                   account |-> seller, fee |-> vop_fee])
         ELSE s5, LAMBDA s6 :
    IF s6.err THEN s6 ELSE [s6 EXCEPT !.lim = Drop(@, id)]))))))

\* cancel_limit_order that rounds the fee deducted in the paid asset down
cancel_limit_order_rounds_down(s, id, create_virtual_op, skip_cancel_fee) ==
    IF s.err THEN s
    ELSE
    LET order == s.lim[id]
        seller == order.seller
        paid == order.deferred_paid_fee
        deduct == create_virtual_op /\ ~skip_cancel_fee /\ order.deferred_fee > 0
        \* the fee schedule's cancel fee, capped by the deferred fee
        core_cancel_fee == IF deduct
                           THEN Min(global_params.cancel_fee, order.deferred_fee)
                           ELSE 0
        charged == core_cancel_fee > 0
        deferred_fee == order.deferred_fee - core_cancel_fee
        \* round_up( paid_fee * core_cancel_fee / deferred_core_fee_before_deduct )
        cancel_fee_amount ==
            IF charged /\ paid.amount /= 0
            THEN (paid.amount * core_cancel_fee) \div order.deferred_fee
            ELSE 0
        deferred_paid_fee == Asset(paid.amount - cancel_fee_amount, paid.asset_id)
        vop_fee == IF ~charged THEN Asset(0, CORE)
                   ELSE IF paid.amount = 0 THEN Asset(core_cancel_fee, CORE)
                   ELSE Asset(cancel_fee_amount, paid.asset_id)
        refunded == amount_for_sale(order)
    IN
    Then(IF charged THEN pay_fee(s, seller, core_cancel_fee) ELSE s, LAMBDA s1 :
    Then(IF charged /\ paid.amount /= 0
         THEN [s1 EXCEPT !.dyn[paid.asset_id].accumulated_fees = @ + cancel_fee_amount]
         ELSE s1, LAMBDA s2 :
    Then(IF refunded.asset_id = CORE
         THEN [s2 EXCEPT !.stats[seller].total_core_in_orders = @ - refunded.amount]
         ELSE s2, LAMBDA s3 :
    Then(adjust_balance(s3, seller, refunded), LAMBDA s4 :
    Then(IF paid.amount = 0
         THEN adjust_balance(s4, seller, Asset(deferred_fee, CORE))
         ELSE adjust_balance(
                  [s4 EXCEPT !.dyn[paid.asset_id].fee_pool = @ + deferred_fee],
                  seller, deferred_paid_fee), LAMBDA s5 :
    Then(IF create_virtual_op
         THEN push_applied_operation(s5,
                  [type |-> "limit_order_cancel", id |-> id,
                   account |-> seller, fee |-> vop_fee])
         ELSE s5, LAMBDA s6 :
    IF s6.err THEN s6 ELSE [s6 EXCEPT !.lim = Drop(@, id)]))))))

\* database::cancel_limit_order
cancel_limit_order(s, id, create_virtual_op, skip_cancel_fee) ==
    IF s.err THEN s
    ELSE
    LET order == s.lim[id]
        seller == order.seller
        paid == order.deferred_paid_fee
        deduct == create_virtual_op /\ ~skip_cancel_fee /\ order.deferred_fee > 0
        \* the fee schedule's cancel fee, capped by the deferred fee
        core_cancel_fee == IF deduct
                           THEN Min(global_params.cancel_fee, order.deferred_fee)
                           ELSE 0
        charged == core_cancel_fee > 0
        deferred_fee == order.deferred_fee - core_cancel_fee
        \* round_up( paid_fee * core_cancel_fee / deferred_core_fee_before_deduct )
        cancel_fee_amount ==
            IF charged /\ paid.amount /= 0
            THEN (paid.amount * core_cancel_fee + order.deferred_fee - 1)
                     \div order.deferred_fee
            ELSE 0
        deferred_paid_fee == Asset(paid.amount - cancel_fee_amount, paid.asset_id)
        vop_fee == IF ~charged THEN Asset(0, CORE)
                   ELSE IF paid.amount = 0 THEN Asset(core_cancel_fee, CORE)
                   ELSE Asset(cancel_fee_amount, paid.asset_id)
        refunded == amount_for_sale(order)
    IN
    Then(IF charged THEN pay_fee(s, seller, core_cancel_fee) ELSE s, LAMBDA s1 :
    Then(IF charged /\ paid.amount /= 0
         THEN [s1 EXCEPT !.dyn[paid.asset_id].accumulated_fees = @ + cancel_fee_amount]
         ELSE s1, LAMBDA s2 :
    Then(IF refunded.asset_id = CORE
         THEN [s2 EXCEPT !.stats[seller].total_core_in_orders = @ - refunded.amount]
         ELSE s2, LAMBDA s3 :
    Then(adjust_balance(s3, seller, refunded), LAMBDA s4 :
    Then(IF paid.amount = 0
         THEN adjust_balance(s4, seller, Asset(deferred_fee, CORE))
         ELSE adjust_balance(
                  [s4 EXCEPT !.dyn[paid.asset_id].fee_pool = @ + deferred_fee],
                  seller, deferred_paid_fee), LAMBDA s5 :
    Then(IF create_virtual_op
         THEN push_applied_operation(s5,
                  [type |-> "limit_order_cancel", id |-> id,
                   account |-> seller, fee |-> vop_fee])
         ELSE s5, LAMBDA s6 :
    IF s6.err THEN s6 ELSE [s6 EXCEPT !.lim = Drop(@, id)]))))))

\* maybe_cull_small_order that leaves every order on the book
maybe_cull_small_order_keeps(s, id) ==
    IF s.err THEN s ELSE Ret(s, FALSE)

\* maybe_cull_small_order; ret is TRUE when the order was cancelled
maybe_cull_small_order(s, id) ==
    IF s.err THEN s
    ELSE IF amount_to_receive(s.lim[id]).amount = 0
         THEN Ret(cancel_limit_order(s, id, TRUE, FALSE), TRUE)
    ELSE Ret(s, FALSE)

\* settle_deferred_fees that refunds nothing of a fee paid in core
settle_deferred_fees_undiscounted(s, order, is_maker) ==
    IF s.err THEN s
    ELSE
    LET seller == order.seller
        mdp == global_params.maker_fee_discount_percent
        paid == order.deferred_paid_fee
        has_paid == paid.amount > 0
        \* fee paid in another asset
        refund_paid == IF has_paid /\ is_maker /\ mdp > 0
                       THEN calculate_percent(paid.amount, mdp) ELSE 0
        fee_pool_refund == IF refund_paid > 0
                           THEN calculate_percent(order.deferred_fee, mdp) ELSE 0
        deferred_paid_fee == paid.amount - refund_paid
        deferred_fee_1 == order.deferred_fee - fee_pool_refund
        bad_paid == \/ (has_paid /\ is_maker /\ mdp > 0
                          /\ ~calculate_percent_ok(paid.amount, mdp))
                    \/ (refund_paid > 0
                          /\ (\/ refund_paid > paid.amount
                              \/ ~(order.deferred_fee > 0)
                              \/ ~calculate_percent_ok(order.deferred_fee, mdp)
                              \/ fee_pool_refund > order.deferred_fee))
        \* fee paid in core
        core_case == order.deferred_fee > 0 /\ paid.amount <= 0 /\ is_maker /\ mdp > 0
        refund_core == 0
        bad_core == \/ (core_case /\ ~calculate_percent_ok(deferred_fee_1, mdp))
                    \/ (refund_core > 0 /\ refund_core > deferred_fee_1)
        deferred_fee_2 == deferred_fee_1 - refund_core
    IN  IF bad_paid THEN Fail(s)
        ELSE IF bad_core THEN Fail(s)
        ELSE
        Then(IF refund_paid > 0
             THEN adjust_balance(s, seller, Asset(refund_paid, paid.asset_id))
             ELSE s, LAMBDA s1 :
        Then(IF has_paid /\ ~s1.err
             THEN [s1 EXCEPT !.dyn[paid.asset_id].accumulated_fees = @ + deferred_paid_fee,
                             !.dyn[paid.asset_id].fee_pool = @ + fee_pool_refund]
             ELSE s1, LAMBDA s2 :
        Then(IF refund_core > 0
             THEN adjust_balance(s2, seller, Asset(refund_core, CORE))
             ELSE s2, LAMBDA s3 :
        IF order.deferred_fee > 0 /\ deferred_fee_2 > 0
        THEN pay_fee(s3, seller, deferred_fee_2)
        ELSE s3)))

\* settle_deferred_fees that deposits the paid fee in the accumulated fees of
\* the asset the order receives
settle_deferred_fees_to_received(s, order, is_maker) ==
    IF s.err THEN s
    ELSE
    LET seller == order.seller
        mdp == global_params.maker_fee_discount_percent
        paid == order.deferred_paid_fee
        has_paid == paid.amount > 0
        \* fee paid in another asset
        refund_paid == IF has_paid /\ is_maker /\ mdp > 0
                       THEN calculate_percent(paid.amount, mdp) ELSE 0
        fee_pool_refund == IF refund_paid > 0
                           THEN calculate_percent(order.deferred_fee, mdp) ELSE 0
        deferred_paid_fee == paid.amount - refund_paid
        deferred_fee_1 == order.deferred_fee - fee_pool_refund
        bad_paid == \/ (has_paid /\ is_maker /\ mdp > 0
                          /\ ~calculate_percent_ok(paid.amount, mdp))
                    \/ (refund_paid > 0
                          /\ (\/ refund_paid > paid.amount
                              \/ ~(order.deferred_fee > 0)
                              \/ ~calculate_percent_ok(order.deferred_fee, mdp)
                              \/ fee_pool_refund > order.deferred_fee))
        \* fee paid in core
        core_case == order.deferred_fee > 0 /\ paid.amount <= 0 /\ is_maker /\ mdp > 0
        refund_core == IF core_case THEN calculate_percent(deferred_fee_1, mdp) ELSE 0
        bad_core == \/ (core_case /\ ~calculate_percent_ok(deferred_fee_1, mdp))
                    \/ (refund_core > 0 /\ refund_core > deferred_fee_1)
        deferred_fee_2 == deferred_fee_1 - refund_core
    IN  IF bad_paid THEN Fail(s)
        ELSE IF bad_core THEN Fail(s)
        ELSE
        Then(IF refund_paid > 0
             THEN adjust_balance(s, seller, Asset(refund_paid, paid.asset_id))
             ELSE s, LAMBDA s1 :
        Then(IF has_paid /\ ~s1.err
             THEN [s1 EXCEPT !.dyn[paid.asset_id].fee_pool = @ + fee_pool_refund,
                             !.dyn[receive_asset_id(order)].accumulated_fees =
                                 @ + deferred_paid_fee]
             ELSE s1, LAMBDA s2 :
        Then(IF refund_core > 0
             THEN adjust_balance(s2, seller, Asset(refund_core, CORE))
             ELSE s2, LAMBDA s3 :
        IF order.deferred_fee > 0 /\ deferred_fee_2 > 0
        THEN pay_fee(s3, seller, deferred_fee_2)
        ELSE s3)))

\* The deferred creation fee of an order at a fill (BSIP85 maker discount, then
\* the rest to accumulated_fees and to the seller's statistics).
settle_deferred_fees(s, order, is_maker) ==
    IF s.err THEN s
    ELSE
    LET seller == order.seller
        mdp == global_params.maker_fee_discount_percent
        paid == order.deferred_paid_fee
        has_paid == paid.amount > 0
        \* fee paid in another asset
        refund_paid == IF has_paid /\ is_maker /\ mdp > 0
                       THEN calculate_percent(paid.amount, mdp) ELSE 0
        fee_pool_refund == IF refund_paid > 0
                           THEN calculate_percent(order.deferred_fee, mdp) ELSE 0
        deferred_paid_fee == paid.amount - refund_paid
        deferred_fee_1 == order.deferred_fee - fee_pool_refund
        bad_paid == \/ (has_paid /\ is_maker /\ mdp > 0
                          /\ ~calculate_percent_ok(paid.amount, mdp))
                    \/ (refund_paid > 0
                          /\ (\/ refund_paid > paid.amount
                              \/ ~(order.deferred_fee > 0)
                              \/ ~calculate_percent_ok(order.deferred_fee, mdp)
                              \/ fee_pool_refund > order.deferred_fee))
        \* fee paid in core
        core_case == order.deferred_fee > 0 /\ paid.amount <= 0 /\ is_maker /\ mdp > 0
        refund_core == IF core_case THEN calculate_percent(deferred_fee_1, mdp) ELSE 0
        bad_core == \/ (core_case /\ ~calculate_percent_ok(deferred_fee_1, mdp))
                    \/ (refund_core > 0 /\ refund_core > deferred_fee_1)
        deferred_fee_2 == deferred_fee_1 - refund_core
    IN  IF bad_paid THEN Fail(s)
        ELSE IF bad_core THEN Fail(s)
        ELSE
        Then(IF refund_paid > 0
             THEN adjust_balance(s, seller, Asset(refund_paid, paid.asset_id))
             ELSE s, LAMBDA s1 :
        Then(IF has_paid /\ ~s1.err
             THEN [s1 EXCEPT !.dyn[paid.asset_id].accumulated_fees = @ + deferred_paid_fee,
                             !.dyn[paid.asset_id].fee_pool = @ + fee_pool_refund]
             ELSE s1, LAMBDA s2 :
        Then(IF refund_core > 0
             THEN adjust_balance(s2, seller, Asset(refund_core, CORE))
             ELSE s2, LAMBDA s3 :
        IF order.deferred_fee > 0 /\ deferred_fee_2 > 0
        THEN pay_fee(s3, seller, deferred_fee_2)
        ELSE s3)))

\* fill_limit_order that reports a completely filled order as gone and leaves
\* its object, with nothing for sale, on the book
fill_limit_order_keeps_filled(s, id, pays, receives, cull_if_small, fill_price, is_maker) ==
    IF s.err THEN s
    ELSE
    LET order == s.lim[id]
        seller == order.seller
    IN  IF amount_for_sale(order).asset_id /= pays.asset_id THEN Fail(s)
        ELSE IF pays.asset_id = receives.asset_id THEN Fail(s)
        ELSE
        Then(pay_market_fees(s, seller, receives.asset_id, receives, is_maker),
             LAMBDA s1 :
        Then(pay_order(s1, seller,
                       Asset(receives.amount - s1.ret, receives.asset_id), pays),
             LAMBDA s2 :
        Then(push_applied_operation(s2,
                 [type |-> "fill_order", order_type |-> "limit", id |-> id,
                  account |-> seller,
                  pays |-> pays, receives |-> receives,
                  fee |-> Asset(s1.ret, receives.asset_id),
                  fill_price |-> fill_price, is_maker |-> is_maker]), LAMBDA s3 :
        Then(settle_deferred_fees(s3, order, is_maker), LAMBDA s4 :
        LET s5 == [s4 EXCEPT !.lim[id].for_sale = @ - pays.amount,
                             !.lim[id].deferred_fee = 0,
                             !.lim[id].deferred_paid_fee.amount = 0]
        IN  IF s4.err THEN s4
            ELSE IF pays = amount_for_sale(order) THEN Ret(s5, TRUE)
            ELSE IF cull_if_small THEN maybe_cull_small_order(s5, id)
            ELSE Ret(s5, FALSE)))))

\* fill_limit_order that leaves the deferred fees on a partly filled order
fill_limit_order_keeps_deferred(s, id, pays, receives, cull_if_small, fill_price, is_maker) ==
    IF s.err THEN s
    ELSE
    LET order == s.lim[id]
        seller == order.seller
    IN  IF amount_for_sale(order).asset_id /= pays.asset_id THEN Fail(s)
        ELSE IF pays.asset_id = receives.asset_id THEN Fail(s)
        ELSE
        Then(pay_market_fees(s, seller, receives.asset_id, receives, is_maker),
             LAMBDA s1 :
        Then(pay_order(s1, seller,
                       Asset(receives.amount - s1.ret, receives.asset_id), pays),
             LAMBDA s2 :
        Then(push_applied_operation(s2,
                 [type |-> "fill_order", order_type |-> "limit", id |-> id,
                  account |-> seller,
                  pays |-> pays, receives |-> receives,
                  fee |-> Asset(s1.ret, receives.asset_id),
                  fill_price |-> fill_price, is_maker |-> is_maker]), LAMBDA s3 :
        Then(settle_deferred_fees(s3, order, is_maker), LAMBDA s4 :
        IF s4.err THEN s4
        ELSE IF pays = amount_for_sale(order)
             THEN Ret([s4 EXCEPT !.lim = Drop(@, id)], TRUE)
        ELSE IF cull_if_small
             THEN maybe_cull_small_order(
                      [s4 EXCEPT !.lim[id].for_sale = @ - pays.amount], id)
        ELSE Ret([s4 EXCEPT !.lim[id].for_sale = @ - pays.amount], FALSE)))))

\* database::fill_limit_order; ret is TRUE when the order is gone
fill_limit_order(s, id, pays, receives, cull_if_small, fill_price, is_maker) ==
    IF s.err THEN s
    ELSE
    LET order == s.lim[id]
        seller == order.seller
    IN  IF amount_for_sale(order).asset_id /= pays.asset_id THEN Fail(s)
        ELSE IF pays.asset_id = receives.asset_id THEN Fail(s)
        ELSE
        Then(pay_market_fees(s, seller, receives.asset_id, receives, is_maker),
             LAMBDA s1 :
        Then(pay_order(s1, seller,
                       Asset(receives.amount - s1.ret, receives.asset_id), pays),
             LAMBDA s2 :
        Then(push_applied_operation(s2,
                 [type |-> "fill_order", order_type |-> "limit", id |-> id,
                  account |-> seller,
                  pays |-> pays, receives |-> receives,
                  fee |-> Asset(s1.ret, receives.asset_id),
                  fill_price |-> fill_price, is_maker |-> is_maker]), LAMBDA s3 :
        Then(settle_deferred_fees(s3, order, is_maker), LAMBDA s4 :
        IF s4.err THEN s4
        ELSE IF pays = amount_for_sale(order)
             THEN Ret([s4 EXCEPT !.lim = Drop(@, id)], TRUE)
        ELSE IF cull_if_small
             THEN maybe_cull_small_order(
                      [s4 EXCEPT !.lim[id].for_sale = @ - pays.amount,
                                 !.lim[id].deferred_fee = 0,
                                 !.lim[id].deferred_paid_fee.amount = 0], id)
        ELSE Ret([s4 EXCEPT !.lim[id].for_sale = @ - pays.amount,
                            !.lim[id].deferred_fee = 0,
                            !.lim[id].deferred_paid_fee.amount = 0], FALSE)))))

\* fill_call_order that zeroes the collateral of the order on every fill, paid
\* off or not
fill_call_order_zeroes_collateral(s, id, pays, receives, fill_price, is_maker, margin_call_fee) ==
    IF s.err THEN s
    ELSE
    LET order == s.calls[id]
        mia == receives.asset_id
        debt == order.debt - receives.amount
        paid_off == debt = 0
        collateral_freed == order.collateral - pays.amount
    IN  IF order.debt_type /= receives.asset_id THEN Fail(s)
        ELSE IF order.collateral_type /= pays.asset_id THEN Fail(s)
        ELSE IF ~(order.collateral >= pays.amount) THEN Fail(s)
        ELSE IF ~is_market_issued(mia) THEN Fail(s)
        ELSE
        Then([s EXCEPT !.calls[id].debt = debt,
                       !.calls[id].collateral = 0,
                       !.dyn[mia].current_supply = @ - receives.amount], LAMBDA s2 :
        Then(IF paid_off
             THEN adjust_balance(s2, order.borrower,
                                 Asset(collateral_freed, order.collateral_type))
             ELSE s2, LAMBDA s3 :
        Then(IF pays.asset_id = CORE /\ ~s3.err
             THEN [s3 EXCEPT !.stats[order.borrower].total_core_in_orders =
                       @ - pays.amount - (IF paid_off THEN collateral_freed ELSE 0)]
             ELSE s3, LAMBDA s4 :
        Then(IF margin_call_fee.amount /= 0
             THEN accumulate_fee(s4, mia, margin_call_fee)
             ELSE s4, LAMBDA s5 :
        Then(push_applied_operation(s5,
                 [type |-> "fill_order", order_type |-> "call", id |-> id,
                  account |-> order.borrower,
                  pays |-> pays, receives |-> receives, fee |-> margin_call_fee,
                  fill_price |-> fill_price, is_maker |-> is_maker]), LAMBDA s6 :
        IF s6.err THEN s6
        ELSE IF paid_off THEN Ret([s6 EXCEPT !.calls = Drop(@, id)], TRUE)
        ELSE Ret(s6, FALSE))))))

\* fill_call_order that gives the margin call fee back to the borrower
fill_call_order_refunds_fee(s, id, pays, receives, fill_price, is_maker, margin_call_fee) ==
    IF s.err THEN s
    ELSE
    LET order == s.calls[id]
        mia == receives.asset_id
        debt == order.debt - receives.amount
        paid_off == debt = 0
        collateral_freed == order.collateral - pays.amount
    IN  IF order.debt_type /= receives.asset_id THEN Fail(s)
        ELSE IF order.collateral_type /= pays.asset_id THEN Fail(s)
        ELSE IF ~(order.collateral >= pays.amount) THEN Fail(s)
        ELSE IF ~is_market_issued(mia) THEN Fail(s)
        ELSE
        Then([s EXCEPT !.calls[id].debt = debt,
                       !.calls[id].collateral = IF paid_off THEN 0 ELSE collateral_freed,
                       !.dyn[mia].current_supply = @ - receives.amount], LAMBDA s2 :
        Then(IF paid_off
             THEN adjust_balance(s2, order.borrower,
                                 Asset(collateral_freed, order.collateral_type))
             ELSE s2, LAMBDA s3 :
        Then(IF pays.asset_id = CORE /\ ~s3.err
             THEN [s3 EXCEPT !.stats[order.borrower].total_core_in_orders =
                       @ - pays.amount - (IF paid_off THEN collateral_freed ELSE 0)]
             ELSE s3, LAMBDA s4 :
        Then(IF margin_call_fee.amount /= 0
             THEN adjust_balance(s4, order.borrower, margin_call_fee)
             ELSE s4, LAMBDA s5 :
        Then(push_applied_operation(s5,
                 [type |-> "fill_order", order_type |-> "call", id |-> id,
                  account |-> order.borrower,
                  pays |-> pays, receives |-> receives, fee |-> margin_call_fee,
                  fill_price |-> fill_price, is_maker |-> is_maker]), LAMBDA s6 :
        IF s6.err THEN s6
        ELSE IF paid_off THEN Ret([s6 EXCEPT !.calls = Drop(@, id)], TRUE)
        ELSE Ret(s6, FALSE))))))

\* database::fill_call_order; ret is TRUE when the call order is closed
fill_call_order(s, id, pays, receives, fill_price, is_maker, margin_call_fee) ==
    IF s.err THEN s
    ELSE
    LET order == s.calls[id]
        mia == receives.asset_id
        debt == order.debt - receives.amount
        paid_off == debt = 0
        collateral_freed == order.collateral - pays.amount
    IN  IF order.debt_type /= receives.asset_id THEN Fail(s)
        ELSE IF order.collateral_type /= pays.asset_id THEN Fail(s)
        ELSE IF ~(order.collateral >= pays.amount) THEN Fail(s)
        ELSE IF ~is_market_issued(mia) THEN Fail(s)
        ELSE
        Then([s EXCEPT !.calls[id].debt = debt,
                       !.calls[id].collateral = IF paid_off THEN 0 ELSE collateral_freed,
                       !.dyn[mia].current_supply = @ - receives.amount], LAMBDA s2 :
        Then(IF paid_off
             THEN adjust_balance(s2, order.borrower,
                                 Asset(collateral_freed, order.collateral_type))
             ELSE s2, LAMBDA s3 :
        Then(IF pays.asset_id = CORE /\ ~s3.err
             THEN [s3 EXCEPT !.stats[order.borrower].total_core_in_orders =
                       @ - pays.amount - (IF paid_off THEN collateral_freed ELSE 0)]
             ELSE s3, LAMBDA s4 :
        Then(IF margin_call_fee.amount /= 0
             THEN accumulate_fee(s4, mia, margin_call_fee)
             ELSE s4, LAMBDA s5 :
        Then(push_applied_operation(s5,
                 [type |-> "fill_order", order_type |-> "call", id |-> id,
                  account |-> order.borrower,
                  pays |-> pays, receives |-> receives, fee |-> margin_call_fee,
                  fill_price |-> fill_price, is_maker |-> is_maker]), LAMBDA s6 :
        IF s6.err THEN s6
        ELSE IF paid_off THEN Ret([s6 EXCEPT !.calls = Drop(@, id)], TRUE)
        ELSE Ret(s6, FALSE))))))

\* database::fill_settle_order; ret is TRUE when the settle order is gone
fill_settle_order(s, id, pays, receives, fill_price, is_maker) ==
    IF s.err THEN s
    ELSE
    LET settle == s.settles[id]
        filled == ~(pays.amount < settle.balance.amount)
    IN
    Then(pay_market_fees(s, settle.owner, receives.asset_id, receives, is_maker),
         LAMBDA s1 :
    Then(pay_force_settle_fees(s1, pays.asset_id,
             Asset(receives.amount - s1.ret, receives.asset_id)), LAMBDA s2 :
    LET total_fees == s1.ret + s2.ret IN
    Then(IF ~filled /\ ~s2.err
         THEN [s2 EXCEPT !.settles[id].balance.amount = @ - pays.amount]
         ELSE s2, LAMBDA s3 :
    Then(adjust_balance(s3, settle.owner,
                        Asset(receives.amount - total_fees, receives.asset_id)),
         LAMBDA s4 :
    Then(push_applied_operation(s4,
             [type |-> "fill_order", order_type |-> "settle", id |-> id,
              account |-> settle.owner,
              pays |-> pays, receives |-> receives,
              fee |-> Asset(total_fees, receives.asset_id),
              fill_price |-> fill_price, is_maker |-> is_maker]), LAMBDA s5 :
    IF s5.err THEN s5
    ELSE IF filled THEN Ret([s5 EXCEPT !.settles = Drop(@, id)], TRUE)
    ELSE Ret(s5, FALSE))))))

\* --------------------------------------------------------------- indices
has_settlement(b) == ~is_null(b.settlement_price)
mcfr_of(b) == IF b.options.margin_call_fee_ratio.valid
              THEN b.options.margin_call_fee_ratio.value ELSE 0

\* by_price: sell_price descending, then id ascending
BeforeByPrice(lim, a, b) ==
    \/ PriceGT(lim[a].sell_price, lim[b].sell_price)
    \/ (PriceEQ(lim[a].sell_price, lim[b].sell_price) /\ a < b)

\* the first of the orders by id alone
FirstById(lim, ids) ==
    CHOOSE a \in ids : \A b \in ids : a <= b

FirstByPrice(lim, ids) ==
    CHOOSE a \in ids : \A b \in ids \ {a} : BeforeByPrice(lim, a, b)

RECURSIVE SortByPrice(_, _)
SortByPrice(lim, ids) ==
    IF ids = {} THEN <<>>
    ELSE LET a == FirstByPrice(lim, ids)
         IN  <<a>> \o SortByPrice(lim, ids \ {a})

\* the orders selling `sell` for `recv`
SideOf(lim, sell, recv) ==
    {i \in DOMAIN lim : sell_asset_id(lim[i]) = sell /\ receive_asset_id(lim[i]) = recv}

\* [lower_bound(bound.max()), upper_bound(bound)): the orders of bound's pair
\* priced at bound or better, best first
RangeByPrice(lim, bound) ==
    SortByPrice(lim, {i \in SideOf(lim, bound.base.asset_id, bound.quote.asset_id) :
                          PriceGE(lim[i].sell_price, bound)})

\* by_collateral: collateralization ascending, then id ascending
CallsOf(calls, coll, debt) ==
    {i \in DOMAIN calls : calls[i].collateral_type = coll /\ calls[i].debt_type = debt}

BeforeByCollateral(calls, a, b) ==
    \/ PriceLT(collateralization(calls[a]), collateralization(calls[b]))
    \/ (PriceEQ(collateralization(calls[a]), collateralization(calls[b])) /\ a < b)

\* the call order of the lowest id
OldestCall(calls, coll, debt) ==
    CHOOSE a \in CallsOf(calls, coll, debt) :
        \A b \in CallsOf(calls, coll, debt) : a <= b

\* lower_bound( price::min(coll, debt) ): the least collateralized call
WeakestCall(calls, coll, debt) ==
    CHOOSE a \in CallsOf(calls, coll, debt) :
        \A b \in CallsOf(calls, coll, debt) \ {a} : BeforeByCollateral(calls, a, b)

\* get_max_debt_to_cover that covers one unit of the debt of a call order
\* with a target collateral ratio
get_max_debt_to_cover_one(c, match_price, feed_price, mcr, maint) ==
    IF PriceLT(maint, collateralization(c)) THEN 0
    ELSE IF ~c.target_collateral_ratio.valid THEN c.debt
    ELSE 1

\* call_order_object::get_max_debt_to_cover: nothing when the call is above
\* maintenance; all of the debt of a call order without a target collateral
\* ratio; with one, the least part of the debt that, paid for at match_price
\* rounded up, leaves the call order collateralized above the target (the
\* greater of its target_collateral_ratio and the maintenance ratio, times
\* the feed price), and all of the debt when no part of it does
get_max_debt_to_cover(c, match_price, feed_price, mcr, maint) ==
    IF PriceLT(maint, collateralization(c)) THEN 0
    ELSE IF ~c.target_collateral_ratio.valid THEN c.debt
    ELSE
    LET tcr == Max(c.target_collateral_ratio.value, mcr)
        target == PriceTimesRatio(Inv(feed_price), tcr, GRAPHENE_COLLATERAL_RATIO_DENOM)
        to_pay(x) == MulUp(Asset(x, c.debt_type), match_price).amount
        covered(x) == [c EXCEPT !.debt = @ - x, !.collateral = @ - to_pay(x)]
        enough == {x \in 1..(c.debt - 1) :
                       /\ to_pay(x) < c.collateral
                       /\ PriceLT(target, collateralization(covered(x)))}
    IN  IF enough = {} THEN c.debt
        ELSE CHOOSE x \in enough : \A y \in enough : x <= y

\* ------------------------------------------------------------- matching
\* match( limit, limit ) without the return for a taker that would receive
\* nothing: the fill goes on with the rounded amounts
match_limit_limit_fills_nothing(s, usd_id, core_id, match_price) ==
    IF s.err THEN s
    ELSE
    LET usd == s.lim[usd_id]
        core == s.lim[core_id]
        usd_receives_1 == MulDown(amount_for_sale(usd), match_price)
        core_receives_2 == MulDown(amount_for_sale(core), match_price)
        taker_small == usd.for_sale <= core_receives_2.amount
        usd_receives == IF taker_small THEN usd_receives_1
                        ELSE MulUp(core_receives_2, match_price)
        core_receives == IF taker_small THEN MulUp(usd_receives_1, match_price)
                         ELSE core_receives_2
    IN
    Then(fill_limit_order(s, usd_id, core_receives, usd_receives, taker_small,
                          match_price, FALSE), LAMBDA s1 :
    Then(fill_limit_order(s1, core_id, usd_receives, core_receives, TRUE,
                          match_price, TRUE), LAMBDA s2 :
    IF s2.err THEN s2
    ELSE Ret(s2, (IF s1.ret = TRUE THEN 1 ELSE 0) + (IF s2.ret = TRUE THEN 2 ELSE 0))))

\* match( limit, limit ) with the bits of the taker and the maker exchanged
match_limit_limit_bits_swapped(s, usd_id, core_id, match_price) ==
    IF s.err THEN s
    ELSE
    LET usd == s.lim[usd_id]
        core == s.lim[core_id]
        usd_for_sale == amount_for_sale(usd)
        core_for_sale == amount_for_sale(core)
    IN
    Then(MulDown(usd_for_sale, match_price), LAMBDA usd_receives_1 :
    Then(MulDown(core_for_sale, match_price), LAMBDA core_receives_2 :
    LET taker_small == usd_for_sale.amount <= core_receives_2.amount
        usd_receives == IF taker_small THEN usd_receives_1
                        ELSE MulUp(core_receives_2, match_price)
        core_receives == IF taker_small THEN MulUp(usd_receives_1, match_price)
                         ELSE core_receives_2
        cull_taker == taker_small
        core_pays == usd_receives
        usd_pays == core_receives
    IN  IF receive_asset_id(usd) /= sell_asset_id(core) THEN Fail(s)
        ELSE IF sell_asset_id(usd) /= receive_asset_id(core) THEN Fail(s)
        ELSE IF ~(usd.for_sale > 0 /\ core.for_sale > 0) THEN Fail(s)
        ELSE IF taker_small /\ usd_receives_1.amount = 0 THEN Ret(s, 1)
        ELSE
        Then(fill_limit_order(s, usd_id, usd_pays, usd_receives, cull_taker,
                              match_price, FALSE), LAMBDA s1 :
        Then(fill_limit_order(s1, core_id, core_pays, core_receives, TRUE,
                              match_price, TRUE), LAMBDA s2 :
        LET result == (IF s1.ret = TRUE THEN 2 ELSE 0) + (IF s2.ret = TRUE THEN 1 ELSE 0)
        IN  IF s2.err THEN s2
            ELSE IF result = 0 THEN Fail(s2)
            ELSE Ret(s2, result)))))

\* database::match( limit, limit ): taker usd, maker core; ret is the bit field
match_limit_limit(s, usd_id, core_id, match_price) ==
    IF s.err THEN s
    ELSE
    LET usd == s.lim[usd_id]
        core == s.lim[core_id]
        usd_for_sale == amount_for_sale(usd)
        core_for_sale == amount_for_sale(core)
    IN
    Then(MulDown(usd_for_sale, match_price), LAMBDA usd_receives_1 :
    Then(MulDown(core_for_sale, match_price), LAMBDA core_receives_2 :
    LET taker_small == usd_for_sale.amount <= core_receives_2.amount
        usd_receives == IF taker_small THEN usd_receives_1
                        ELSE MulUp(core_receives_2, match_price)
        core_receives == IF taker_small THEN MulUp(usd_receives_1, match_price)
                         ELSE core_receives_2
        cull_taker == taker_small
        core_pays == usd_receives
        usd_pays == core_receives
    IN  IF receive_asset_id(usd) /= sell_asset_id(core) THEN Fail(s)
        ELSE IF sell_asset_id(usd) /= receive_asset_id(core) THEN Fail(s)
        ELSE IF ~(usd.for_sale > 0 /\ core.for_sale > 0) THEN Fail(s)
        ELSE IF taker_small /\ usd_receives_1.amount = 0 THEN Ret(s, 1)
        ELSE
        Then(fill_limit_order(s, usd_id, usd_pays, usd_receives, cull_taker,
                              match_price, FALSE), LAMBDA s1 :
        Then(fill_limit_order(s1, core_id, core_pays, core_receives, TRUE,
                              match_price, TRUE), LAMBDA s2 :
        LET result == (IF s1.ret = TRUE THEN 1 ELSE 0) + (IF s2.ret = TRUE THEN 2 ELSE 0)
        IN  IF s2.err THEN s2
            ELSE IF result = 0 THEN Fail(s2)
            ELSE Ret(s2, result)))))

\* database::match( limit, call ): taker bid, maker ask; ret is the bit field
match_limit_call(s, bid_id, ask_id, match_price, feed_price, mcr, maint, call_pays_price) ==
    IF s.err THEN s
    ELSE
    LET bid == s.lim[bid_id]
        ask == s.calls[ask_id]
        usd_for_sale == amount_for_sale(bid)
    IN
    Then(Asset(get_max_debt_to_cover(ask, call_pays_price, feed_price, mcr, maint),
               ask.debt_type), LAMBDA usd_to_buy :
    Then(MulDown(usd_for_sale, match_price), LAMBDA order_receives_1 :
    LET fill_limit == usd_to_buy.amount > usd_for_sale.amount IN
    Then(IF fill_limit THEN order_receives_1 ELSE MulUp(usd_to_buy, match_price),
         LAMBDA order_receives :
    Then(IF fill_limit THEN MulDown(usd_for_sale, call_pays_price)
         ELSE MulUp(usd_to_buy, call_pays_price), LAMBDA call_pays :
    LET call_receives == IF fill_limit THEN MulUp(order_receives_1, match_price)
                         ELSE usd_to_buy
        cull_taker == fill_limit
        order_pays == call_receives
        margin_call_fee == Asset(call_pays.amount - order_receives.amount,
                                 call_pays.asset_id)
    IN  IF sell_asset_id(bid) /= ask.debt_type THEN Fail(s)
        ELSE IF receive_asset_id(bid) /= ask.collateral_type THEN Fail(s)
        ELSE IF ~(bid.for_sale > 0 /\ ask.debt > 0 /\ ask.collateral > 0) THEN Fail(s)
        ELSE IF fill_limit /\ order_receives_1.amount = 0 THEN Ret(s, 1)
        ELSE IF ~(call_pays.amount >= order_receives.amount) THEN Fail(s)
        ELSE
        Then(fill_limit_order(s, bid_id, order_pays, order_receives, cull_taker,
                              match_price, FALSE), LAMBDA s1 :
        Then(fill_call_order(s1, ask_id, call_pays, call_receives, match_price,
                             TRUE, margin_call_fee), LAMBDA s2 :
        IF s2.err THEN s2
        ELSE Ret(s2, (IF s1.ret = TRUE THEN 1 ELSE 0)
                         + (IF s2.ret = TRUE THEN 2 ELSE 0))))))))

\* match( call, settle ) without the rise of a payment of nothing to 1
match_call_settle_pays_nothing(s, call_id, settle_id, match_price, max_settlement, fill_price) ==
    IF s.err THEN s
    ELSE
    LET call == s.calls[call_id]
        settle == s.settles[settle_id]
        settle_for_sale == Min(settle.balance.amount, max_settlement.amount)
        call_debt == call.debt
        call_receives_0 == Asset(Min(settle_for_sale, call_debt), call.debt_type)
        whole_call == call_receives_0.amount = call_debt
        whole_settle == call_receives_0 = settle.balance
    IN
    Then(MulDown(call_receives_0, match_price), LAMBDA call_pays_0 :
    Then(IF call_pays_0.amount = 0 THEN call_pays_0
         ELSE IF whole_call THEN MulUp(call_receives_0, match_price)
         ELSE call_pays_0, LAMBDA call_pays :
    Then(IF call_pays_0.amount /= 0 /\ ~whole_call
         THEN MulUp(call_pays_0, match_price)
         ELSE call_receives_0, LAMBDA call_receives :
    LET cull_settle_order == /\ call_pays_0.amount /= 0
                             /\ ~whole_call
                             /\ whole_settle
                             /\ call_receives /= settle.balance
    IN  IF call.debt_type /= settle.balance.asset_id THEN Fail(s)
        ELSE IF ~(call.debt > 0 /\ call.collateral > 0 /\ settle.balance.amount > 0)
             THEN Fail(s)
        ELSE IF call_pays_0.amount = 0 /\ ~whole_call
             THEN Ret(IF whole_settle THEN cancel_settle_order(s, settle_id, TRUE) ELSE s,
                      Asset(0, settle.balance.asset_id))
        ELSE
        Then(fill_call_order(s, call_id, call_pays, call_receives, fill_price, TRUE,
                             Asset(0, call.collateral_type)), LAMBDA s1 :
        Then(fill_settle_order(s1, settle_id, call_receives, call_pays, fill_price,
                               FALSE), LAMBDA s2 :
        Then(IF cull_settle_order THEN cancel_settle_order(s2, settle_id, TRUE) ELSE s2,
             LAMBDA s3 :
        IF s3.err THEN s3
        ELSE Ret(s3, call_receives)))))))

\* database::match( call, settle ): ret is the debt covered
match_call_settle(s, call_id, settle_id, match_price, max_settlement, fill_price) ==
    IF s.err THEN s
    ELSE
    LET call == s.calls[call_id]
        settle == s.settles[settle_id]
        settle_for_sale == Min(settle.balance.amount, max_settlement.amount)
        call_debt == call.debt
        call_receives_0 == Asset(Min(settle_for_sale, call_debt), call.debt_type)
        whole_call == call_receives_0.amount = call_debt
        whole_settle == call_receives_0 = settle.balance
    IN
    Then(MulDown(call_receives_0, match_price), LAMBDA call_pays_0 :
    Then(IF call_pays_0.amount = 0 THEN Asset(1, call_pays_0.asset_id)
         ELSE IF whole_call THEN MulUp(call_receives_0, match_price)
         ELSE call_pays_0, LAMBDA call_pays :
    Then(IF call_pays_0.amount /= 0 /\ ~whole_call
         THEN MulUp(call_pays_0, match_price)
         ELSE call_receives_0, LAMBDA call_receives :
    LET cull_settle_order == /\ call_pays_0.amount /= 0
                             /\ ~whole_call
                             /\ whole_settle
                             /\ call_receives /= settle.balance
    IN  IF call.debt_type /= settle.balance.asset_id THEN Fail(s)
        ELSE IF ~(call.debt > 0 /\ call.collateral > 0 /\ settle.balance.amount > 0)
             THEN Fail(s)
        ELSE IF call_pays_0.amount = 0 /\ ~whole_call
             THEN Ret(IF whole_settle THEN cancel_settle_order(s, settle_id, TRUE) ELSE s,
                      Asset(0, settle.balance.asset_id))
        ELSE
        Then(fill_call_order(s, call_id, call_pays, call_receives, fill_price, TRUE,
                             Asset(0, call.collateral_type)), LAMBDA s1 :
        Then(fill_settle_order(s1, settle_id, call_receives, call_pays, fill_price,
                               FALSE), LAMBDA s2 :
        Then(IF cull_settle_order THEN cancel_settle_order(s2, settle_id, TRUE) ELSE s2,
             LAMBDA s3 :
        IF s3.err THEN s3
        ELSE Ret(s3, call_receives)))))))

\* ---------------------------------------------- global settlement, revival
\* the loop of globally_settle_asset_impl: close every call order of the asset,
\* least collateralized first; ret is the collateral gathered
RECURSIVE settle_all_calls(_, _, _, _, _)
settle_all_calls(s, mia, backing, settlement_price, gathered) ==
    IF s.err THEN s
    ELSE IF CallsOf(s.calls, backing, mia) = {} THEN Ret(s, gathered)
    ELSE
    Then(WeakestCall(s.calls, backing, mia), LAMBDA id :
    LET order == s.calls[id] IN
    Then(MulUp(get_debt(order), settlement_price), LAMBDA up :
    LET pays == IF up.amount > order.collateral THEN get_collateral(order) ELSE up IN
    Then(fill_call_order(s, id, pays, get_debt(order), settlement_price, TRUE,
                         Asset(0, backing)), LAMBDA s1 :
    IF s1.err THEN s1
    ELSE IF s1.ret /= TRUE THEN Fail(s1)
    ELSE settle_all_calls(s1, mia, backing, settlement_price,
                          gathered + pays.amount))))

\* globally_settle_asset that prices the supply one unit above the fund
globally_settle_asset_overpriced(s, mia, settlement_price) ==
    IF s.err THEN s
    ELSE
    LET bitasset == s.bit[mia]
        backing == bitasset.options.short_backing_asset
        original_mia_supply == s.dyn[mia].current_supply
    IN  IF has_settlement(bitasset) THEN Fail(s)
        ELSE
        Then(settle_all_calls(s, mia, backing, settlement_price, 0), LAMBDA s1 :
        IF s1.err THEN s1
        ELSE [s1 EXCEPT
                !.bit[mia].settlement_price =
                    Price(Asset(original_mia_supply, mia), Asset(s1.ret + 1, backing)),
                !.bit[mia].settlement_fund = s1.ret,
                !.dyn[mia].current_supply = original_mia_supply])

\* globally_settle_asset that leaves current_supply at what the fills left
globally_settle_asset_supply_lost(s, mia, settlement_price) ==
    IF s.err THEN s
    ELSE
    LET bitasset == s.bit[mia]
        backing == bitasset.options.short_backing_asset
        original_mia_supply == s.dyn[mia].current_supply
    IN  IF has_settlement(bitasset) THEN Fail(s)
        ELSE
        Then(settle_all_calls(s, mia, backing, settlement_price, 0), LAMBDA s1 :
        IF s1.err THEN s1
        ELSE [s1 EXCEPT
                !.bit[mia].settlement_price =
                    Price(Asset(original_mia_supply, mia), Asset(s1.ret, backing)),
                !.bit[mia].settlement_fund = s1.ret])

\* globally_settle_asset that does not look for a prior settlement
globally_settle_asset_again(s, mia, settlement_price) ==
    IF s.err THEN s
    ELSE
    LET bitasset == s.bit[mia]
        backing == bitasset.options.short_backing_asset
        original_mia_supply == s.dyn[mia].current_supply
    IN  Then(settle_all_calls(s, mia, backing, settlement_price, 0), LAMBDA s1 :
        IF s1.err THEN s1
        ELSE [s1 EXCEPT
                !.bit[mia].settlement_price =
                    Price(Asset(original_mia_supply, mia), Asset(s1.ret, backing)),
                !.bit[mia].settlement_fund = s1.ret,
                !.dyn[mia].current_supply = original_mia_supply])

\* database::globally_settle_asset
globally_settle_asset(s, mia, settlement_price) ==
    IF s.err THEN s
    ELSE
    LET bitasset == s.bit[mia]
        backing == bitasset.options.short_backing_asset
        original_mia_supply == s.dyn[mia].current_supply
    IN  IF has_settlement(bitasset) THEN Fail(s)
        ELSE
        Then(settle_all_calls(s, mia, backing, settlement_price, 0), LAMBDA s1 :
        IF s1.err THEN s1
        ELSE [s1 EXCEPT
                !.bit[mia].settlement_price =
                    Price(Asset(original_mia_supply, mia), Asset(s1.ret, backing)),
                !.bit[mia].settlement_fund = s1.ret,
                !.dyn[mia].current_supply = original_mia_supply])

\* database::_cancel_bids_and_revive_mpa
cancel_bids_and_revive_mpa(s, mia) ==
    IF s.err THEN s
    ELSE IF ~is_market_issued(mia) THEN Fail(s)
    ELSE IF ~has_settlement(s.bit[mia]) THEN Fail(s)
    ELSE IF s.bit[mia].is_prediction_market THEN Fail(s)
    ELSE [s EXCEPT !.bit[mia].settlement_price = NullPrice,
                   !.bit[mia].settlement_fund = 0]

\* database::revive_bitasset
revive_bitasset(s, mia) ==
    IF s.err THEN s
    ELSE IF ~is_market_issued(mia) THEN Fail(s)
    ELSE IF ~has_settlement(s.bit[mia]) THEN Fail(s)
    ELSE IF s.bit[mia].is_prediction_market THEN Fail(s)
    ELSE IF is_null(s.bit[mia].current_feed.settlement_price) THEN Fail(s)
    ELSE IF s.dyn[mia].current_supply <= 0 /\ s.bit[mia].settlement_fund /= 0 THEN Fail(s)
    ELSE cancel_bids_and_revive_mpa(s, mia)

\* database::check_for_blackswan: the least collateralized call against the
\* better of the short squeeze price and the best bid; ret is TRUE when the
\* asset is (or has just been) globally settled
check_for_blackswan(s, mia, enable_black_swan) ==
    IF s.err THEN s
    ELSE IF ~is_market_issued(mia) THEN Ret(s, FALSE)
    ELSE
    LET bitasset == s.bit[mia]
        backing == bitasset.options.short_backing_asset
        settle_price == bitasset.current_feed.settlement_price
        bids == SideOf(s.lim, mia, backing)
    IN  IF has_settlement(bitasset) THEN Ret(s, TRUE)
        ELSE IF is_null(settle_price) THEN Ret(s, FALSE)
        ELSE IF CallsOf(s.calls, backing, mia) = {} THEN Ret(s, FALSE)
        ELSE
        Then(max_short_squeeze_price(bitasset.current_feed), LAMBDA mssp :
        Then(IF bids = {} THEN mssp ELSE s.lim[FirstByPrice(s.lim, bids)].sell_price,
             LAMBDA best_bid :
        Then(Inv(collateralization(s.calls[WeakestCall(s.calls, backing, mia)])),
             LAMBDA least_collateral :
        LET highest == IF PriceGT(best_bid, mssp) THEN best_bid ELSE mssp
        IN  IF PriceGE(least_collateral, highest)
            THEN IF ~enable_black_swan THEN Fail(s)
                 ELSE IF PriceLE(least_collateral, settle_price)
                      THEN Ret(globally_settle_asset(s, mia, settle_price), TRUE)
                 ELSE Ret(globally_settle_asset(s, mia, least_collateral), TRUE)
            ELSE Ret(s, FALSE))))

\* ------------------------------------------------------ check_call_orders
\* the sanity check of check_call_orders has found a call order that cannot
\* pay its margin call, and settles the asset globally even when
\* enable_black_swan is false
black_swan_detected_regardless(s, mia, enable_black_swan) ==
    Then(elog(s, [at |-> "check_call_orders", asset |-> mia,
                  enable_black_swan |-> enable_black_swan]), LAMBDA sl :
    Ret(globally_settle_asset(sl, mia, sl.bit[mia].current_feed.settlement_price),
        TRUE))

\* the sanity check of check_call_orders has found a call order that cannot
\* pay its margin call: log it, throw unless enable_black_swan, and settle the
\* asset globally at the feed's settlement price
black_swan_detected(s, mia, enable_black_swan) ==
    Then(elog(s, [at |-> "check_call_orders", asset |-> mia,
                  enable_black_swan |-> enable_black_swan]), LAMBDA sl :
    IF ~enable_black_swan THEN Fail(sl)
    ELSE Ret(globally_settle_asset(sl, mia, sl.bit[mia].current_feed.settlement_price),
             TRUE))

\* the main loop of check_call_orders; queue is [limit_itr, limit_end)
\* the loop of check_call_orders with the call order as the maker of each fill
RECURSIVE check_call_orders_loop_call_maker(_, _, _, _, _, _)
check_call_orders_loop_call_maker(s, mia, enable_black_swan, for_new_limit_order, queue, margin_called) ==
    IF s.err THEN s
    ELSE
    Then(check_for_blackswan(s, mia, enable_black_swan), LAMBDA s0 :
    IF s0.err THEN s0
    ELSE
    LET bitasset == s0.bit[mia]
        backing == bitasset.options.short_backing_asset
    IN  IF s0.ret = TRUE \/ queue = <<>> \/ CallsOf(s0.calls, backing, mia) = {}
        THEN Ret(s0, margin_called)
        ELSE
        Then(WeakestCall(s0.calls, backing, mia), LAMBDA call_id :
        LET call_order == s0.calls[call_id]
            limit_id == Head(queue)
            limit_order == s0.lim[limit_id]
            match_price == limit_order.sell_price
            ratio == margin_call_pays_ratio(bitasset.current_feed, mcfr_of(bitasset))
            usd_for_sale == amount_for_sale(limit_order)
        IN
        Then(PriceTimesRatio(match_price, ratio.num, ratio.den), LAMBDA call_pays_price :
        Then(Asset(get_max_debt_to_cover(
                       call_order, call_pays_price,
                       bitasset.current_feed.settlement_price,
                       bitasset.current_feed.maintenance_collateral_ratio,
                       bitasset.current_maintenance_collateralization), mia),
             LAMBDA usd_to_buy :
        LET fill_limit == usd_to_buy.amount > usd_for_sale.amount IN
        Then(IF fill_limit THEN MulDown(usd_for_sale, match_price)
             ELSE MulUp(usd_to_buy, match_price), LAMBDA limit_receives :
        Then(IF fill_limit THEN MulDown(usd_for_sale, call_pays_price)
             ELSE MulUp(usd_to_buy, call_pays_price), LAMBDA call_pays :
        LET call_receives == IF fill_limit THEN MulUp(limit_receives, match_price)
                             ELSE usd_to_buy
            limit_pays == call_receives
            margin_call_fee == Asset(call_pays.amount - limit_receives.amount,
                                     call_pays.asset_id)
        IN  IF PriceLT(bitasset.current_maintenance_collateralization,
                       collateralization(call_order))
            THEN Ret(s0, margin_called)
            ELSE IF MulDown(get_debt(call_order), call_pays_price).amount
                        > call_order.collateral
                 THEN black_swan_detected(s0, mia, enable_black_swan)
            ELSE IF ~(call_pays.amount >= limit_receives.amount) THEN Fail(s0)
            ELSE
            Then(fill_call_order(s0, call_id, call_pays, call_receives, match_price,
                                 ~for_new_limit_order, margin_call_fee), LAMBDA s1 :
            Then(fill_limit_order(s1, limit_id, limit_pays, limit_receives, TRUE,
                                  match_price, for_new_limit_order), LAMBDA s2 :
            IF s2.err THEN s2
            ELSE check_call_orders_loop_call_maker(
                     s2, mia, enable_black_swan, for_new_limit_order,
                     IF s2.ret = TRUE THEN Tail(queue) ELSE queue, TRUE)))))))))

RECURSIVE check_call_orders_loop(_, _, _, _, _, _)
check_call_orders_loop(s, mia, enable_black_swan, for_new_limit_order, queue, margin_called) ==
    IF s.err THEN s
    ELSE
    Then(check_for_blackswan(s, mia, enable_black_swan), LAMBDA s0 :
    IF s0.err THEN s0
    ELSE
    LET bitasset == s0.bit[mia]
        backing == bitasset.options.short_backing_asset
    IN  IF s0.ret = TRUE \/ queue = <<>> \/ CallsOf(s0.calls, backing, mia) = {}
        THEN Ret(s0, margin_called)
        ELSE
        Then(WeakestCall(s0.calls, backing, mia), LAMBDA call_id :
        LET call_order == s0.calls[call_id]
            limit_id == Head(queue)
            limit_order == s0.lim[limit_id]
            match_price == limit_order.sell_price
            ratio == margin_call_pays_ratio(bitasset.current_feed, mcfr_of(bitasset))
            usd_for_sale == amount_for_sale(limit_order)
        IN
        Then(PriceTimesRatio(match_price, ratio.num, ratio.den), LAMBDA call_pays_price :
        Then(Asset(get_max_debt_to_cover(
                       call_order, call_pays_price,
                       bitasset.current_feed.settlement_price,
                       bitasset.current_feed.maintenance_collateral_ratio,
                       bitasset.current_maintenance_collateralization), mia),
             LAMBDA usd_to_buy :
        LET fill_limit == usd_to_buy.amount > usd_for_sale.amount IN
        Then(IF fill_limit THEN MulDown(usd_for_sale, match_price)
             ELSE MulUp(usd_to_buy, match_price), LAMBDA limit_receives :
        Then(IF fill_limit THEN MulDown(usd_for_sale, call_pays_price)
             ELSE MulUp(usd_to_buy, call_pays_price), LAMBDA call_pays :
        LET call_receives == IF fill_limit THEN MulUp(limit_receives, match_price)
                             ELSE usd_to_buy
            limit_pays == call_receives
            margin_call_fee == Asset(call_pays.amount - limit_receives.amount,
                                     call_pays.asset_id)
        IN  IF PriceLT(bitasset.current_maintenance_collateralization,
                       collateralization(call_order))
            THEN Ret(s0, margin_called)
            ELSE IF MulDown(get_debt(call_order), call_pays_price).amount
                        > call_order.collateral
                 THEN black_swan_detected(s0, mia, enable_black_swan)
            ELSE IF ~(call_pays.amount >= limit_receives.amount) THEN Fail(s0)
            ELSE
            Then(fill_call_order(s0, call_id, call_pays, call_receives, match_price,
                                 for_new_limit_order, margin_call_fee), LAMBDA s1 :
            Then(fill_limit_order(s1, limit_id, limit_pays, limit_receives, TRUE,
                                  match_price, ~for_new_limit_order), LAMBDA s2 :
            IF s2.err THEN s2
            ELSE check_call_orders_loop(
                     s2, mia, enable_black_swan, for_new_limit_order,
                     IF s2.ret = TRUE THEN Tail(queue) ELSE queue, TRUE)))))))))

\* check_call_orders that returns true when check_for_blackswan finds the
\* asset globally settled or settles it
check_call_orders_true_on_swan(s, mia, enable_black_swan, for_new_limit_order) ==
    IF s.err THEN s
    ELSE IF for_new_limit_order THEN Fail(s)
    ELSE IF ~is_market_issued(mia) THEN Ret(s, FALSE)
    ELSE IF s.bit[mia].is_prediction_market THEN Ret(s, FALSE)
    ELSE
    Then(check_for_blackswan(s, mia, enable_black_swan), LAMBDA s1 :
    IF s1.err THEN s1
    ELSE IF s1.ret = TRUE THEN Ret(s1, TRUE)
    ELSE IF is_null(s1.bit[mia].current_feed.settlement_price) THEN Ret(s1, FALSE)
    ELSE
    Then(RangeByPrice(s1.lim, margin_call_order_price(s1.bit[mia].current_feed,
                                                      mcfr_of(s1.bit[mia]))),
         LAMBDA queue :
    IF queue = <<>> THEN Ret(s1, FALSE)
    ELSE check_call_orders_loop(s1, mia, enable_black_swan, for_new_limit_order,
                                queue, FALSE)))

\* database::check_call_orders; ret is TRUE when a margin call was executed
check_call_orders(s, mia, enable_black_swan, for_new_limit_order) ==
    IF s.err THEN s
    ELSE IF for_new_limit_order THEN Fail(s)
    ELSE IF ~is_market_issued(mia) THEN Ret(s, FALSE)
    ELSE IF s.bit[mia].is_prediction_market THEN Ret(s, FALSE)
    ELSE
    Then(check_for_blackswan(s, mia, enable_black_swan), LAMBDA s1 :
    IF s1.err THEN s1
    ELSE IF s1.ret = TRUE THEN Ret(s1, FALSE)
    ELSE IF is_null(s1.bit[mia].current_feed.settlement_price) THEN Ret(s1, FALSE)
    ELSE
    Then(RangeByPrice(s1.lim, margin_call_order_price(s1.bit[mia].current_feed,
                                                      mcfr_of(s1.bit[mia]))),
         LAMBDA queue :
    IF queue = <<>> THEN Ret(s1, FALSE)
    ELSE check_call_orders_loop(s1, mia, enable_black_swan, for_new_limit_order,
                                queue, FALSE)))

\* ------------------------------------------------------------ apply_order
\* while( !finished && limit_itr != limit_end [&& sell_price > bound] ) match;
\* ret is [finished, queue]
\* the limit order loop of apply_order that stops after one match
match_limits_once(s, new_id, queue, bounded, bound) ==
    IF s.err THEN s
    ELSE IF queue = <<>> THEN Ret(s, [finished |-> FALSE, queue |-> queue])
    ELSE IF bounded /\ ~PriceGT(s.lim[Head(queue)].sell_price, bound)
         THEN Ret(s, [finished |-> FALSE, queue |-> queue])
    ELSE
    Then(match_limit_limit(s, new_id, Head(queue), s.lim[Head(queue)].sell_price),
         LAMBDA s1 :
    IF s1.err THEN s1
    ELSE Ret(s1, [finished |-> s1.ret /= 2, queue |-> <<>>]))

RECURSIVE match_limits(_, _, _, _, _)
match_limits(s, new_id, queue, bounded, bound) ==
    IF s.err THEN s
    ELSE IF queue = <<>> THEN Ret(s, [finished |-> FALSE, queue |-> queue])
    ELSE IF bounded /\ ~PriceGT(s.lim[Head(queue)].sell_price, bound)
         THEN Ret(s, [finished |-> FALSE, queue |-> queue])
    ELSE
    Then(match_limit_limit(s, new_id, Head(queue), s.lim[Head(queue)].sell_price),
         LAMBDA s1 :
    IF s1.err THEN s1
    ELSE IF s1.ret /= 2 THEN Ret(s1, [finished |-> TRUE, queue |-> Tail(queue)])
    ELSE match_limits(s1, new_id, Tail(queue), bounded, bound))

\* the margin call loop of apply_order; ret is finished
RECURSIVE match_calls(_, _, _, _, _, _)
match_calls(s, new_id, sell_asset, recv_asset, call_match_price, call_pays_price) ==
    IF s.err THEN s
    ELSE IF CallsOf(s.calls, recv_asset, sell_asset) = {} THEN Ret(s, FALSE)
    ELSE
    Then(WeakestCall(s.calls, recv_asset, sell_asset), LAMBDA call_id :
    LET sell_abd == s.bit[sell_asset]
    IN  IF PriceGT(collateralization(s.calls[call_id]),
                   sell_abd.current_maintenance_collateralization)
        THEN Ret(s, FALSE)
        ELSE
        Then(match_limit_call(s, new_id, call_id, call_match_price,
                              sell_abd.current_feed.settlement_price,
                              sell_abd.current_feed.maintenance_collateral_ratio,
                              sell_abd.current_maintenance_collateralization,
                              call_pays_price), LAMBDA s1 :
        IF s1.err THEN s1
        ELSE IF s1.ret = 1 \/ s1.ret = 3 THEN Ret(s1, TRUE)
        ELSE match_calls(s1, new_id, sell_asset, recv_asset, call_match_price,
                         call_pays_price)))

\* the front of the book taken for the orders priced no worse than order_id
at_front_of_book_by_price(lim, order_id) ==
    \A i \in SideOf(lim, sell_asset_id(lim[order_id]), receive_asset_id(lim[order_id])) :
        ~PriceGT(lim[i].sell_price, lim[order_id].sell_price)

\* apply_order's test of the front of the book: the element of by_price just
\* before ( sell_price, order_id ) is not an order of the same market, that
\* is, order_id is the first of its side
at_front_of_book(lim, order_id) ==
    FirstByPrice(lim, SideOf(lim, sell_asset_id(lim[order_id]),
                             receive_asset_id(lim[order_id]))) = order_id

\* apply_order that matches the call orders before any limit order
apply_order_calls_first(s, order_id) ==
    IF s.err THEN s
    ELSE
    LET new_order == s.lim[order_id]
        sell_asset == sell_asset_id(new_order)
        recv_asset == receive_asset_id(new_order)
        not_at_front == ~at_front_of_book(s.lim, order_id)
        max_price == Inv(new_order.sell_price)
        sell_abd == s.bit[sell_asset]
        calls_possible == /\ is_market_issued(sell_asset)
                          /\ sell_abd.options.short_backing_asset = recv_asset
                          /\ ~sell_abd.is_prediction_market
                          /\ ~has_settlement(sell_abd)
                          /\ ~is_null(sell_abd.current_feed.settlement_price)
    IN  IF not_at_front THEN Ret(s, FALSE)
        ELSE
        Then(RangeByPrice(s.lim, max_price), LAMBDA queue :
        Then(Inv(margin_call_order_price(sell_abd.current_feed, mcfr_of(sell_abd))),
             LAMBDA call_match_price :
        Then(calls_possible /\ PriceLE(Inv(new_order.sell_price), call_match_price),
             LAMBDA to_check_call_orders :
        Then(Ret(s, [finished |-> FALSE, queue |-> queue]), LAMBDA s1 :
        \* the margin calls
        Then(IF s1.err THEN s1
             ELSE IF to_check_call_orders /\ ~s1.ret.finished
             THEN match_calls(s1, order_id, sell_asset, recv_asset, call_match_price,
                              Inv(max_short_squeeze_price(sell_abd.current_feed)))
             ELSE Ret(s1, s1.ret.finished), LAMBDA s2 :
        \* the remaining limit orders
        Then(IF ~s2.err /\ ~s2.ret
             THEN match_limits(s2, order_id, s1.ret.queue, FALSE, max_price)
             ELSE s2, LAMBDA s3 :
        IF s3.err THEN s3
        ELSE IF order_id \notin DOMAIN s3.lim THEN Ret(s3, TRUE)
        ELSE maybe_cull_small_order(s3, order_id)))))))

\* apply_order that matches the call orders of a prediction market as well
apply_order_prediction_market(s, order_id) ==
    IF s.err THEN s
    ELSE
    LET new_order == s.lim[order_id]
        sell_asset == sell_asset_id(new_order)
        recv_asset == receive_asset_id(new_order)
        not_at_front == ~at_front_of_book(s.lim, order_id)
        max_price == Inv(new_order.sell_price)
        sell_abd == s.bit[sell_asset]
        calls_possible == /\ is_market_issued(sell_asset)
                          /\ sell_abd.options.short_backing_asset = recv_asset
                          /\ ~has_settlement(sell_abd)
                          /\ ~is_null(sell_abd.current_feed.settlement_price)
    IN  IF not_at_front THEN Ret(s, FALSE)
        ELSE
        Then(RangeByPrice(s.lim, max_price), LAMBDA queue :
        Then(Inv(margin_call_order_price(sell_abd.current_feed, mcfr_of(sell_abd))),
             LAMBDA call_match_price :
        Then(calls_possible /\ PriceLE(Inv(new_order.sell_price), call_match_price),
             LAMBDA to_check_call_orders :
        \* limit orders priced better than the margin calls
        Then(IF to_check_call_orders
             THEN match_limits(s, order_id, queue, TRUE, call_match_price)
             ELSE Ret(s, [finished |-> FALSE, queue |-> queue]), LAMBDA s1 :
        \* the margin calls
        Then(IF s1.err THEN s1
             ELSE IF to_check_call_orders /\ ~s1.ret.finished
             THEN match_calls(s1, order_id, sell_asset, recv_asset, call_match_price,
                              Inv(max_short_squeeze_price(sell_abd.current_feed)))
             ELSE Ret(s1, s1.ret.finished), LAMBDA s2 :
        \* the remaining limit orders
        Then(IF ~s2.err /\ ~s2.ret
             THEN match_limits(s2, order_id, s1.ret.queue, FALSE, max_price)
             ELSE s2, LAMBDA s3 :
        IF s3.err THEN s3
        ELSE IF order_id \notin DOMAIN s3.lim THEN Ret(s3, TRUE)
        ELSE maybe_cull_small_order(s3, order_id)))))))

\* database::apply_order; ret is TRUE when the new order is gone
apply_order(s, order_id) ==
    IF s.err THEN s
    ELSE
    LET new_order == s.lim[order_id]
        sell_asset == sell_asset_id(new_order)
        recv_asset == receive_asset_id(new_order)
        not_at_front == ~at_front_of_book(s.lim, order_id)
        max_price == Inv(new_order.sell_price)
        sell_abd == s.bit[sell_asset]
        calls_possible == /\ is_market_issued(sell_asset)
                          /\ sell_abd.options.short_backing_asset = recv_asset
                          /\ ~sell_abd.is_prediction_market
                          /\ ~has_settlement(sell_abd)
                          /\ ~is_null(sell_abd.current_feed.settlement_price)
    IN  IF not_at_front THEN Ret(s, FALSE)
        ELSE
        Then(RangeByPrice(s.lim, max_price), LAMBDA queue :
        Then(Inv(margin_call_order_price(sell_abd.current_feed, mcfr_of(sell_abd))),
             LAMBDA call_match_price :
        Then(calls_possible /\ PriceLE(Inv(new_order.sell_price), call_match_price),
             LAMBDA to_check_call_orders :
        \* limit orders priced better than the margin calls
        Then(IF to_check_call_orders
             THEN match_limits(s, order_id, queue, TRUE, call_match_price)
             ELSE Ret(s, [finished |-> FALSE, queue |-> queue]), LAMBDA s1 :
        \* the margin calls
        Then(IF s1.err THEN s1
             ELSE IF to_check_call_orders /\ ~s1.ret.finished
             THEN match_calls(s1, order_id, sell_asset, recv_asset, call_match_price,
                              Inv(max_short_squeeze_price(sell_abd.current_feed)))
             ELSE Ret(s1, s1.ret.finished), LAMBDA s2 :
        \* the remaining limit orders
        Then(IF ~s2.err /\ ~s2.ret
             THEN match_limits(s2, order_id, s1.ret.queue, FALSE, max_price)
             ELSE s2, LAMBDA s3 :
        IF s3.err THEN s3
        ELSE IF order_id \notin DOMAIN s3.lim THEN Ret(s3, TRUE)
        ELSE maybe_cull_small_order(s3, order_id)))))))

\* ------------------------------------------------------------- evaluators
\* Every evaluator below maps the database to the database after the
\* operation, with err set when the operation is rejected.

\* limit_order_create: the creation fee is deferred on the order, the funds
\* are locked, and the new order is matched by apply_order
limit_order_create(s, seller, amount_to_sell, min_to_receive, fee_mode, fill_or_kill) ==
    LET core_fee == IF fee_mode = "none" THEN 0 ELSE global_params.create_fee
        paid_fee == IF fee_mode = "paid"
                    THEN Asset(global_params.create_fee_paid, amount_to_sell.asset_id)
                    ELSE Asset(0, CORE)
        id == s.nid
        order == [seller |-> seller, for_sale |-> amount_to_sell.amount,
                  sell_price |-> Price(amount_to_sell, min_to_receive),
                  deferred_fee |-> core_fee, deferred_paid_fee |-> paid_fee]
    IN  IF amount_to_sell.asset_id = min_to_receive.asset_id THEN Fail(s)
        ELSE IF fee_mode = "paid" /\ amount_to_sell.asset_id = CORE THEN Fail(s)
        ELSE IF ~is_authorized_asset(seller, amount_to_sell.asset_id) THEN Fail(s)
        ELSE IF ~is_authorized_asset(seller, min_to_receive.asset_id) THEN Fail(s)
        ELSE IF s.bal[seller][amount_to_sell.asset_id] < amount_to_sell.amount
             THEN Fail(s)
        ELSE IF fee_mode = "paid" /\ s.dyn[paid_fee.asset_id].fee_pool < core_fee
             THEN Fail(s)
        ELSE
        \* the fee: from the balance, or converted through the asset's fee pool
        Then(IF fee_mode = "paid"
             THEN adjust_balance(
                      [s EXCEPT !.dyn[paid_fee.asset_id].fee_pool = @ - core_fee],
                      seller, Asset(-paid_fee.amount, paid_fee.asset_id))
             ELSE adjust_balance(s, seller, Asset(-core_fee, CORE)), LAMBDA s1 :
        Then(IF amount_to_sell.asset_id = CORE /\ ~s1.err
             THEN [s1 EXCEPT !.stats[seller].total_core_in_orders =
                                  @ + amount_to_sell.amount]
             ELSE s1, LAMBDA s2 :
        Then(adjust_balance(s2, seller,
                            Asset(-amount_to_sell.amount, amount_to_sell.asset_id)),
             LAMBDA s3 :
        Then(IF s3.err THEN s3
             ELSE [s3 EXCEPT !.lim = (id :> order) @@ @, !.nid = @ + 1], LAMBDA s4 :
        Then(apply_order(s4, id), LAMBDA s5 :
        IF s5.err THEN s5
        ELSE IF fill_or_kill /\ s5.ret /= TRUE THEN Fail(s5)
        ELSE s5)))))

\* limit_order_cancel: cancel_limit_order without a virtual operation
limit_order_cancel(s, fee_paying_account, id) ==
    IF id \notin DOMAIN s.lim THEN Fail(s)
    ELSE IF s.lim[id].seller /= fee_paying_account THEN Fail(s)
    ELSE cancel_limit_order(s, id, FALSE, FALSE)

CallOf(calls, borrower, mia) ==
    {i \in DOMAIN calls : calls[i].borrower = borrower /\ calls[i].debt_type = mia}

\* call_order_update: adjust (open, change or close) the borrower's debt
\* position, then check for margin calls without allowing a black swan
call_order_update(s, borrower, mia, delta_collateral, delta_debt) ==
    IF ~is_market_issued(mia) THEN Fail(s)
    ELSE
    LET bitasset == s.bit[mia]
        backing == bitasset.options.short_backing_asset
        existing == CallOf(s.calls, borrower, mia)
        new_call == existing = {}
        id == IF new_call THEN s.nid ELSE CHOOSE i \in existing : TRUE
        old == s.calls[id]
        old_debt == IF new_call THEN 0 ELSE old.debt
        old_coll == IF new_call THEN 0 ELSE old.collateral
        debt == old_debt + delta_debt
        coll == old_coll + delta_collateral
        closing == ~new_call /\ debt = 0
    IN  IF has_settlement(bitasset) THEN Fail(s)
        ELSE IF ~bitasset.is_prediction_market
                /\ is_null(bitasset.current_feed.settlement_price) THEN Fail(s)
        ELSE IF bitasset.is_prediction_market /\ delta_collateral /= delta_debt
             THEN Fail(s)
        ELSE IF delta_debt = 0 /\ delta_collateral = 0 THEN Fail(s)
        ELSE IF new_call /\ ~(delta_collateral > 0 /\ delta_debt > 0) THEN Fail(s)
        ELSE IF ~new_call /\ (debt < 0 \/ coll < 0) THEN Fail(s)
        ELSE IF ~new_call /\ debt = 0 /\ coll /= 0 THEN Fail(s)
        ELSE IF ~new_call /\ debt > 0 /\ coll = 0 THEN Fail(s)
        ELSE IF delta_debt > 0
                /\ s.dyn[mia].current_supply + delta_debt > asset_options[mia].max_supply
             THEN Fail(s)
        ELSE
        Then(adjust_balance(s, borrower, Asset(delta_debt, mia)), LAMBDA s1 :
        Then(IF s1.err THEN s1
             ELSE [s1 EXCEPT !.dyn[mia].current_supply = @ + delta_debt], LAMBDA s2 :
        Then(adjust_balance(s2, borrower, Asset(-delta_collateral, backing)), LAMBDA s3 :
        Then(IF backing = CORE /\ ~s3.err
             THEN [s3 EXCEPT !.stats[borrower].total_core_in_orders =
                                  @ + delta_collateral]
             ELSE s3, LAMBDA s4 :
        Then(IF s4.err THEN s4
             ELSE IF new_call
             THEN [s4 EXCEPT !.calls = (id :> [borrower |-> borrower, debt |-> debt,
                                               collateral |-> coll, debt_type |-> mia,
                                               collateral_type |-> backing,
                                               target_collateral_ratio |-> None]) @@ @,
                             !.nid = @ + 1]
             ELSE IF closing THEN [s4 EXCEPT !.calls = Drop(@, id)]
             ELSE [s4 EXCEPT !.calls[id].debt = debt, !.calls[id].collateral = coll],
             LAMBDA s5 :
        IF s5.err THEN s5
        ELSE IF closing \/ bitasset.is_prediction_market THEN s5
        ELSE
        Then(check_call_orders(s5, mia, FALSE, FALSE), LAMBDA s6 :
        LET alive == id \in DOMAIN s6.calls
            cr == collateralization(s6.calls[id])
        IN  IF s6.err THEN s6
            \* a margin call was executed: the position must have been filled whole
            ELSE IF s6.ret = TRUE THEN (IF alive THEN Fail(s6) ELSE s6)
            ELSE IF ~alive THEN Fail(s6)
            \* no margin call: the position must be above maintenance, or an old
            \* one whose collateral ratio has gone up while its debt has not
            ELSE IF \/ PriceGT(cr, bitasset.current_maintenance_collateralization)
                    \/ /\ ~new_call
                       /\ PriceGT(cr, collateralization(old))
                       /\ old_debt >= debt
                 THEN s6
            ELSE Fail(s6)))))))

\* the settlement engine's step on a due force settlement: cancelled when the
\* asset is globally settled, else matched once against the least
\* collateralized call at the feed price
process_force_settlement(s, id, max_settlement) ==
    IF id \notin DOMAIN s.settles THEN Fail(s)
    ELSE
    LET settle == s.settles[id]
        mia == settle.balance.asset_id
        bitasset == s.bit[mia]
        backing == bitasset.options.short_backing_asset
        feed_price == bitasset.current_feed.settlement_price
    IN  IF has_settlement(bitasset) THEN cancel_settle_order(s, id, TRUE)
        ELSE IF is_null(feed_price) THEN Fail(s)
        ELSE IF CallsOf(s.calls, backing, mia) = {} THEN Fail(s)
        ELSE match_call_settle(s, WeakestCall(s.calls, backing, mia), id, feed_price,
                               Asset(max_settlement, mia), feed_price)

\* asset_issue_evaluator
asset_issue(s, issuer, asset_to_issue, issue_to_account) ==
    LET a == asset_to_issue.asset_id
    IN  IF issuer /= asset_options[a].issuer THEN Fail(s)
        ELSE IF is_market_issued(a) THEN Fail(s)
        ELSE IF ~asset_options[a].can_create_new_supply THEN Fail(s)
        ELSE IF ~is_authorized_asset(issue_to_account, a) THEN Fail(s)
        ELSE IF s.dyn[a].current_supply + asset_to_issue.amount
                    > asset_options[a].max_supply THEN Fail(s)
        ELSE
        Then(adjust_balance(s, issue_to_account, asset_to_issue), LAMBDA s1 :
        IF s1.err THEN s1
        ELSE [s1 EXCEPT !.dyn[a].current_supply = @ + asset_to_issue.amount])

\* asset_reserve_evaluator
asset_reserve(s, payer, amount_to_reserve) ==
    LET a == amount_to_reserve.asset_id
    IN  IF is_market_issued(a) THEN Fail(s)
        ELSE IF ~is_authorized_asset(payer, a) THEN Fail(s)
        ELSE IF s.dyn[a].current_supply - amount_to_reserve.amount < 0 THEN Fail(s)
        ELSE
        Then(adjust_balance(s, payer, Asset(-amount_to_reserve.amount, a)), LAMBDA s1 :
        IF s1.err THEN s1
        ELSE [s1 EXCEPT !.dyn[a].current_supply = @ - amount_to_reserve.amount])

\* asset_global_settle_evaluator
asset_global_settle(s, issuer, asset_to_settle, settle_price) ==
    IF ~is_market_issued(asset_to_settle) THEN Fail(s)
    ELSE
    LET bitasset == s.bit[asset_to_settle]
        backing == bitasset.options.short_backing_asset
        least_collateralized_short ==
            s.calls[WeakestCall(s.calls, backing, asset_to_settle)]
    IN  IF ~asset_options[asset_to_settle].can_global_settle THEN Fail(s)
        ELSE IF asset_options[asset_to_settle].issuer /= issuer THEN Fail(s)
        ELSE IF ~(s.dyn[asset_to_settle].current_supply > 0) THEN Fail(s)
        ELSE IF has_settlement(bitasset) THEN Fail(s)
        ELSE IF CallsOf(s.calls, backing, asset_to_settle) = {} THEN Fail(s)
        ELSE IF ~(MulDown(get_debt(least_collateralized_short), settle_price).amount
                    <= least_collateralized_short.collateral) THEN Fail(s)
        ELSE globally_settle_asset(s, asset_to_settle, settle_price)

\* asset_settle_evaluator that pays the settler of the whole supply the rounded
\* amount, as it pays any other, and not what is left of the fund
asset_settle_rounds_whole(s, account, amount) ==
    IF ~is_market_issued(amount.asset_id) THEN Fail(s)
    ELSE
    LET mia == amount.asset_id
        bitasset == s.bit[mia]
        backing == bitasset.options.short_backing_asset
        current_supply == s.dyn[mia].current_supply
        whole == amount.amount = current_supply
        id == s.nid
    IN  IF ~(asset_options[mia].can_force_settle \/ has_settlement(bitasset))
        THEN Fail(s)
        ELSE IF bitasset.is_prediction_market /\ ~has_settlement(bitasset) THEN Fail(s)
        ELSE IF ~bitasset.is_prediction_market
                /\ is_null(bitasset.current_feed.settlement_price)
                /\ ~has_settlement(bitasset) THEN Fail(s)
        ELSE IF ~(s.bal[account][mia] >= amount.amount) THEN Fail(s)
        ELSE IF has_settlement(bitasset)
        THEN
            Then(MulDown(amount, bitasset.settlement_price), LAMBDA settled0 :
            Then(IF ~whole /\ settled0.amount /= 0
                 THEN MulUp(settled0, bitasset.settlement_price) ELSE amount,
                 LAMBDA pays :
            IF ~whole /\ ~(settled0.amount <= bitasset.settlement_fund) THEN Fail(s)
            ELSE IF settled0.amount = 0 /\ ~bitasset.is_prediction_market THEN Fail(s)
            ELSE
            Then(adjust_balance(s, account, Asset(-pays.amount, mia)), LAMBDA s1 :
            Then(IF s1.err \/ ~(settled0.amount > 0) THEN Ret(s1, 0)
                 ELSE pay_market_fees(
                          [s1 EXCEPT !.bit[mia].settlement_fund = @ - settled0.amount],
                          account, backing, settled0, FALSE), LAMBDA s2 :
            LET settled == settled0.amount - s2.ret IN
            Then(IF ~s2.err /\ settled > 0
                 THEN adjust_balance(s2, account, Asset(settled, backing))
                 ELSE s2, LAMBDA s3 :
            IF s3.err THEN s3
            ELSE Ret([s3 EXCEPT !.dyn[mia].current_supply = @ - pays.amount],
                     Asset(settled, backing)))))))
        ELSE
            Then(adjust_balance(s, account, Asset(-amount.amount, mia)), LAMBDA t1 :
            IF t1.err THEN t1
            ELSE Ret([t1 EXCEPT !.settles = (id :> [owner |-> account,
                                                    balance |-> amount]) @@ @,
                                !.nid = @ + 1], id))

\* asset_settle_evaluator: against the settlement fund after a global
\* settlement, else a force settlement request is created
asset_settle(s, account, amount) ==
    IF ~is_market_issued(amount.asset_id) THEN Fail(s)
    ELSE
    LET mia == amount.asset_id
        bitasset == s.bit[mia]
        backing == bitasset.options.short_backing_asset
        current_supply == s.dyn[mia].current_supply
        whole == amount.amount = current_supply
        id == s.nid
    IN  IF ~(asset_options[mia].can_force_settle \/ has_settlement(bitasset))
        THEN Fail(s)
        ELSE IF bitasset.is_prediction_market /\ ~has_settlement(bitasset) THEN Fail(s)
        ELSE IF ~bitasset.is_prediction_market
                /\ is_null(bitasset.current_feed.settlement_price)
                /\ ~has_settlement(bitasset) THEN Fail(s)
        ELSE IF ~(s.bal[account][mia] >= amount.amount) THEN Fail(s)
        ELSE IF has_settlement(bitasset)
        THEN
            Then(IF whole THEN Asset(bitasset.settlement_fund, backing)
                 ELSE MulDown(amount, bitasset.settlement_price), LAMBDA settled0 :
            Then(IF ~whole /\ settled0.amount /= 0
                 THEN MulUp(settled0, bitasset.settlement_price) ELSE amount,
                 LAMBDA pays :
            IF ~whole /\ ~(settled0.amount <= bitasset.settlement_fund) THEN Fail(s)
            ELSE IF settled0.amount = 0 /\ ~bitasset.is_prediction_market THEN Fail(s)
            ELSE
            Then(adjust_balance(s, account, Asset(-pays.amount, mia)), LAMBDA s1 :
            Then(IF s1.err \/ ~(settled0.amount > 0) THEN Ret(s1, 0)
                 ELSE pay_market_fees(
                          [s1 EXCEPT !.bit[mia].settlement_fund = @ - settled0.amount],
                          account, backing, settled0, FALSE), LAMBDA s2 :
            LET settled == settled0.amount - s2.ret IN
            Then(IF ~s2.err /\ settled > 0
                 THEN adjust_balance(s2, account, Asset(settled, backing))
                 ELSE s2, LAMBDA s3 :
            IF s3.err THEN s3
            ELSE Ret([s3 EXCEPT !.dyn[mia].current_supply = @ - pays.amount],
                     Asset(settled, backing)))))))
        ELSE
            Then(adjust_balance(s, account, Asset(-amount.amount, mia)), LAMBDA t1 :
            IF t1.err THEN t1
            ELSE Ret([t1 EXCEPT !.settles = (id :> [owner |-> account,
                                                    balance |-> amount]) @@ @,
                                !.nid = @ + 1], id))

\* price_feed::margin_call_params_equal
margin_call_params_equal(a, b) ==
    /\ a.settlement_price = b.settlement_price
    /\ a.maintenance_collateral_ratio = b.maintenance_collateral_ratio
    /\ a.maximum_short_squeeze_ratio = b.maximum_short_squeeze_ratio

\* asset_bitasset_data_object::update_median_feeds with one feed producer: the
\* median is the feed published
update_median_feeds(s, mia, feed) ==
    [s EXCEPT !.bit[mia].current_feed = feed,
              !.bit[mia].current_maintenance_collateralization =
                   maintenance_collateralization(feed)]

\* asset_publish_feeds_evaluator that revives a globally settled asset on any
\* valid feed, whatever its supply and settlement fund
asset_publish_feed_always_revives(s, publisher, asset_id, feed) ==
    IF ~is_market_issued(asset_id) THEN Fail(s)
    ELSE
    LET bitasset == s.bit[asset_id]
        old_feed == bitasset.current_feed
    IN  IF bitasset.is_prediction_market /\ has_settlement(bitasset) THEN Fail(s)
        ELSE IF feed.settlement_price.quote.asset_id /= bitasset.options.short_backing_asset
             THEN Fail(s)
        ELSE IF publisher \notin asset_options[asset_id].feed_producers THEN Fail(s)
        ELSE
        Then(update_median_feeds(s, asset_id, feed), LAMBDA s1 :
        LET bad == s1.bit[asset_id]
            should_revive == TRUE
        IN  IF margin_call_params_equal(old_feed, bad.current_feed) THEN s1
            ELSE check_call_orders(
                     IF has_settlement(bad) /\ ~is_null(bad.current_feed.settlement_price)
                        /\ should_revive
                     THEN revive_bitasset(s1, asset_id) ELSE s1,
                     asset_id, TRUE, FALSE))

\* asset_publish_feeds_evaluator
asset_publish_feed(s, publisher, asset_id, feed) ==
    IF ~is_market_issued(asset_id) THEN Fail(s)
    ELSE
    LET bitasset == s.bit[asset_id]
        old_feed == bitasset.current_feed
    IN  IF bitasset.is_prediction_market /\ has_settlement(bitasset) THEN Fail(s)
        ELSE IF feed.settlement_price.quote.asset_id /= bitasset.options.short_backing_asset
             THEN Fail(s)
        ELSE IF publisher \notin asset_options[asset_id].feed_producers THEN Fail(s)
        ELSE
        Then(update_median_feeds(s, asset_id, feed), LAMBDA s1 :
        LET bad == s1.bit[asset_id]
            should_revive ==
                \/ s1.dyn[asset_id].current_supply = 0
                \/ PriceGT(Price(Asset(bad.settlement_fund,
                                       bad.options.short_backing_asset),
                                 Asset(s1.dyn[asset_id].current_supply, asset_id)),
                           bad.current_maintenance_collateralization)
        IN  IF margin_call_params_equal(old_feed, bad.current_feed) THEN s1
            ELSE check_call_orders(
                     IF has_settlement(bad) /\ ~is_null(bad.current_feed.settlement_price)
                        /\ should_revive
                     THEN revive_bitasset(s1, asset_id) ELSE s1,
                     asset_id, TRUE, FALSE))

\* asset_claim_fees that does not compare a claim of the asset itself with
\* accumulated_fees
asset_claim_fees_unchecked(s, issuer, amount_to_claim, claim_from_asset_id) ==
    LET container_asset == IF claim_from_asset_id.valid THEN claim_from_asset_id.value
                           ELSE amount_to_claim.asset_id
        own == container_asset = amount_to_claim.asset_id
    IN  IF ~(amount_to_claim.amount > 0) THEN Fail(s)
        ELSE IF asset_options[container_asset].issuer /= issuer THEN Fail(s)
        ELSE IF ~can_accumulate_fee(s, container_asset, amount_to_claim) THEN Fail(s)
        ELSE IF ~own /\ ~(amount_to_claim.amount
                            <= s.dyn[container_asset].accumulated_collateral_fees)
             THEN Fail(s)
        ELSE adjust_balance(
                 IF own
                 THEN [s EXCEPT !.dyn[container_asset].accumulated_fees =
                                     @ - amount_to_claim.amount]
                 ELSE [s EXCEPT !.dyn[container_asset].accumulated_collateral_fees =
                                     @ - amount_to_claim.amount],
                 issuer, amount_to_claim)

\* asset_claim_fees that does not compare a claim of the backing asset with
\* accumulated_collateral_fees
asset_claim_fees_backing_unchecked(s, issuer, amount_to_claim, claim_from_asset_id) ==
    LET container_asset == IF claim_from_asset_id.valid THEN claim_from_asset_id.value
                           ELSE amount_to_claim.asset_id
        own == container_asset = amount_to_claim.asset_id
    IN  IF ~(amount_to_claim.amount > 0) THEN Fail(s)
        ELSE IF asset_options[container_asset].issuer /= issuer THEN Fail(s)
        ELSE IF ~can_accumulate_fee(s, container_asset, amount_to_claim) THEN Fail(s)
        ELSE IF own /\ ~(amount_to_claim.amount <= s.dyn[container_asset].accumulated_fees)
             THEN Fail(s)
        ELSE adjust_balance(
                 IF own
                 THEN [s EXCEPT !.dyn[container_asset].accumulated_fees =
                                     @ - amount_to_claim.amount]
                 ELSE [s EXCEPT !.dyn[container_asset].accumulated_collateral_fees =
                                     @ - amount_to_claim.amount],
                 issuer, amount_to_claim)

\* asset_claim_fees_evaluator that takes every claim, of the asset itself or of
\* its backing asset, out of accumulated_fees
asset_claim_fees_from_fees(s, issuer, amount_to_claim, claim_from_asset_id) ==
    LET container_asset == IF claim_from_asset_id.valid THEN claim_from_asset_id.value
                           ELSE amount_to_claim.asset_id
        own == container_asset = amount_to_claim.asset_id
    IN  IF ~(amount_to_claim.amount > 0) THEN Fail(s)
        ELSE IF asset_options[container_asset].issuer /= issuer THEN Fail(s)
        ELSE IF ~can_accumulate_fee(s, container_asset, amount_to_claim) THEN Fail(s)
        ELSE IF own /\ ~(amount_to_claim.amount <= s.dyn[container_asset].accumulated_fees)
             THEN Fail(s)
        ELSE IF ~own /\ ~(amount_to_claim.amount
                            <= s.dyn[container_asset].accumulated_collateral_fees)
             THEN Fail(s)
        ELSE adjust_balance(
                 [s EXCEPT !.dyn[container_asset].accumulated_fees =
                                @ - amount_to_claim.amount],
                 issuer, amount_to_claim)

\* asset_claim_fees_evaluator; the operation's validate() wants a positive amount
asset_claim_fees(s, issuer, amount_to_claim, claim_from_asset_id) ==
    LET container_asset == IF claim_from_asset_id.valid THEN claim_from_asset_id.value
                           ELSE amount_to_claim.asset_id
        own == container_asset = amount_to_claim.asset_id
    IN  IF ~(amount_to_claim.amount > 0) THEN Fail(s)
        ELSE IF asset_options[container_asset].issuer /= issuer THEN Fail(s)
        ELSE IF ~can_accumulate_fee(s, container_asset, amount_to_claim) THEN Fail(s)
        ELSE IF own /\ ~(amount_to_claim.amount <= s.dyn[container_asset].accumulated_fees)
             THEN Fail(s)
        ELSE IF ~own /\ ~(amount_to_claim.amount
                            <= s.dyn[container_asset].accumulated_collateral_fees)
             THEN Fail(s)
        ELSE adjust_balance(
                 IF own
                 THEN [s EXCEPT !.dyn[container_asset].accumulated_fees =
                                     @ - amount_to_claim.amount]
                 ELSE [s EXCEPT !.dyn[container_asset].accumulated_collateral_fees =
                                     @ - amount_to_claim.amount],
                 issuer, amount_to_claim)

\* check_children_of_bitasset that lets every new backing asset pass
check_children_of_bitasset_unchecked(s, asset_to_update, new_backing) ==
    TRUE

\* check_children_of_bitasset: TRUE when no asset backed by asset_to_update
\* forbids the new backing asset
check_children_of_bitasset(s, asset_to_update, new_backing) ==
    \/ new_backing = CORE
    \/ \A child \in DOMAIN s.bit :
          s.bit[child].options.short_backing_asset = asset_to_update =>
             /\ child /= new_backing
             /\ asset_options[child].issuer /= GRAPHENE_COMMITTEE_ACCOUNT
             /\ ~is_market_issued(new_backing)

\* do_evaluate without the requirement on the collateral-denominated fees
asset_update_bitasset_evaluate_fees_unchecked(s, issuer, asset_to_update, new_options) ==
    /\ is_market_issued(asset_to_update)
    /\ issuer = asset_options[asset_to_update].issuer
    /\ ~has_settlement(s.bit[asset_to_update])
    /\ LET current == s.bit[asset_to_update]
           new_backing == new_options.short_backing_asset
       IN  new_backing /= current.options.short_backing_asset =>
             /\ s.dyn[asset_to_update].current_supply = 0
             /\ new_backing /= asset_to_update
             /\ current.is_prediction_market =>
                   asset_options[asset_to_update].precision
                       = asset_options[new_backing].precision
             /\ IF asset_options[asset_to_update].issuer = GRAPHENE_COMMITTEE_ACCOUNT
                THEN IF is_market_issued(new_backing)
                     THEN /\ s.bit[new_backing].options.short_backing_asset = CORE
                          /\ check_children_of_bitasset(s, asset_to_update, new_backing)
                     ELSE new_backing = CORE
                ELSE new_backing /= CORE =>
                        check_children_of_bitasset(s, asset_to_update, new_backing)
             /\ is_market_issued(new_backing) =>
                   LET bb == s.bit[new_backing].options.short_backing_asset
                   IN  bb = CORE \/ ~is_market_issued(bb)
    /\ new_options.feed_lifetime_sec > global_params.block_interval
    /\ new_options.force_settlement_delay_sec > global_params.block_interval

\* asset_update_bitasset_evaluator::do_evaluate
asset_update_bitasset_evaluate(s, issuer, asset_to_update, new_options) ==
    /\ is_market_issued(asset_to_update)
    /\ issuer = asset_options[asset_to_update].issuer
    /\ ~has_settlement(s.bit[asset_to_update])
    /\ LET current == s.bit[asset_to_update]
           new_backing == new_options.short_backing_asset
       IN  new_backing /= current.options.short_backing_asset =>
             /\ s.dyn[asset_to_update].current_supply = 0
             /\ s.dyn[asset_to_update].accumulated_collateral_fees = 0
             /\ new_backing /= asset_to_update
             /\ current.is_prediction_market =>
                   asset_options[asset_to_update].precision
                       = asset_options[new_backing].precision
             /\ IF asset_options[asset_to_update].issuer = GRAPHENE_COMMITTEE_ACCOUNT
                THEN IF is_market_issued(new_backing)
                     THEN /\ s.bit[new_backing].options.short_backing_asset = CORE
                          /\ check_children_of_bitasset(s, asset_to_update, new_backing)
                     ELSE new_backing = CORE
                ELSE new_backing /= CORE =>
                        check_children_of_bitasset(s, asset_to_update, new_backing)
             /\ is_market_issued(new_backing) =>
                   LET bb == s.bit[new_backing].options.short_backing_asset
                   IN  bb = CORE \/ ~is_market_issued(bb)
    /\ new_options.feed_lifetime_sec > global_params.block_interval
    /\ new_options.force_settlement_delay_sec > global_params.block_interval

\* update_bitasset_object_options; ret tells whether to check the call orders
update_bitasset_object_options(s, asset_to_update, new_options) ==
    LET bdo == s.bit[asset_to_update]
        backing_asset_changed ==
            new_options.short_backing_asset /= bdo.options.short_backing_asset
        should_update_feeds ==
            \/ new_options.feed_lifetime_sec /= bdo.options.feed_lifetime_sec
            \/ backing_asset_changed
        mcfr_changed ==
            new_options.margin_call_fee_ratio /= bdo.options.margin_call_fee_ratio
        old_feed == bdo.current_feed
        \* the feeds are reset when the backing asset changes
        new_feed == IF backing_asset_changed THEN Feed(NullPrice, 0, 0) ELSE old_feed
        s1 == [s EXCEPT !.bit[asset_to_update].options = new_options]
        s2 == IF should_update_feeds THEN update_median_feeds(s1, asset_to_update, new_feed)
              ELSE s1
        feed_actually_changed ==
            should_update_feeds /\ ~margin_call_params_equal(old_feed, new_feed)
    IN  Ret(s2, feed_actually_changed \/ mcfr_changed)

\* asset_update_bitasset_evaluator
asset_update_bitasset(s, issuer, asset_to_update, new_options) ==
    IF ~asset_update_bitasset_evaluate(s, issuer, asset_to_update, new_options)
    THEN Fail(s)
    ELSE
    Then(update_bitasset_object_options(s, asset_to_update, new_options), LAMBDA s1 :
    IF s1.ret THEN check_call_orders(s1, asset_to_update, TRUE, FALSE)
    ELSE s1)

\* ------------------------------------------------------------ operations
\* An operation is applied inside an undo session: its changes are kept when
\* it succeeds and discarded when it throws.  A rejected operation leaves the
\* database of the state before it, whose runs are explored from that state,
\* so the exploration does not go on from a rejection.
Commit(r, name, args) ==
    /\ op_count < MaxOps
    /\ last_op.ok
    /\ balance' = IF r.err THEN balance ELSE r.bal
    /\ vesting' = IF r.err THEN vesting ELSE r.vest
    /\ statistics' = IF r.err THEN statistics ELSE r.stats
    /\ dynamic_data' = IF r.err THEN dynamic_data ELSE r.dyn
    /\ bitasset_data' = IF r.err THEN bitasset_data ELSE r.bit
    /\ limit_orders' = IF r.err THEN limit_orders ELSE r.lim
    /\ call_orders' = IF r.err THEN call_orders ELSE r.calls
    /\ settle_orders' = IF r.err THEN settle_orders ELSE r.settles
    /\ next_id' = IF r.err THEN next_id ELSE r.nid
    /\ last_op' = [op |-> name, args |-> args, ok |-> ~r.err,
                   vops |-> IF r.err THEN <<>> ELSE r.vops, log |-> r.log]
    /\ op_count' = op_count + 1
    /\ UNCHANGED cfgvars

\* the inputs tried
P(b, q) == Price(Asset(b, MIA), Asset(q, CORE))
Feeds == {Feed(P(1, 1), 1750, 1500), Feed(P(2, 3), 1750, 1500), Feed(P(1, 2), 1750, 1500)}
SellOffers == {<<Asset(4, MIA), Asset(4, CORE)>>, <<Asset(3, MIA), Asset(5, CORE)>>,
               <<Asset(3, CORE), Asset(2, MIA)>>, <<Asset(6, CORE), Asset(4, MIA)>>}
FeeModes == {"none", "core"}
CallDeltas == {<<8, 4>>, <<6, 3>>, <<-3, 0>>, <<-8, -4>>}
SettleAmounts == {1, 4}
SettlePrices == {P(1, 1), P(1, 2), P(6, 13)}
ClaimAmounts == {0, 1, 2}
McfrOptions == {None, Some(500)}

LimitOrderCreate ==
    \E seller \in Traders, offer \in SellOffers, fee_mode \in FeeModes,
       fill_or_kill \in BOOLEAN :
        Commit(limit_order_create(DB, seller, offer[1], offer[2], fee_mode, fill_or_kill),
               "limit_order_create",
               [seller |-> seller, amount_to_sell |-> offer[1],
                min_to_receive |-> offer[2], fee_mode |-> fee_mode,
                fill_or_kill |-> fill_or_kill])

LimitOrderCancel ==
    \E who \in Traders, id \in DOMAIN limit_orders :
        Commit(limit_order_cancel(DB, who, id), "limit_order_cancel",
               [fee_paying_account |-> who, order |-> id])

CallOrderUpdate ==
    \E borrower \in Traders, d \in CallDeltas :
        Commit(call_order_update(DB, borrower, MIA, d[1], d[2]),
               "call_order_update",
               [funding_account |-> borrower, delta_collateral |-> d[1],
                delta_debt |-> d[2]])

AssetPublishFeed ==
    \E feed \in Feeds :
        Commit(asset_publish_feed(DB, "issuer", MIA, feed), "asset_publish_feed",
               [feed |-> feed])

AssetSettle ==
    \E account \in Traders, amount \in SettleAmounts :
        Commit(asset_settle(DB, account, Asset(amount, MIA)),
               "asset_settle", [account |-> account, amount |-> amount])

ProcessForceSettlement ==
    \E id \in DOMAIN settle_orders, max_settlement \in SettleAmounts :
        Commit(process_force_settlement(DB, id, max_settlement),
               "process_force_settlement",
               [settlement |-> id, max_settlement |-> max_settlement])

AssetGlobalSettle ==
    \E settle_price \in SettlePrices :
        Commit(asset_global_settle(DB, "issuer", MIA, settle_price),
               "asset_global_settle", [settle_price |-> settle_price])

AssetClaimFees ==
    \E amount \in ClaimAmounts, a \in Assets :
        Commit(asset_claim_fees(DB, "issuer", Asset(amount, a), Some(MIA)),
               "asset_claim_fees", [amount_to_claim |-> Asset(amount, a)])

AssetIssue ==
    \E to \in Traders :
        Commit(asset_issue(DB, GRAPHENE_COMMITTEE_ACCOUNT, Asset(1, CORE), to),
               "asset_issue", [issue_to_account |-> to])

AssetReserve ==
    \E payer \in Traders :
        Commit(asset_reserve(DB, payer, Asset(1, CORE)), "asset_reserve", [payer |-> payer])

AssetUpdateBitasset ==
    \E mcfr \in McfrOptions :
        Commit(asset_update_bitasset(DB, "issuer", MIA,
                   [bitasset_data[MIA].options EXCEPT !.margin_call_fee_ratio = mcfr]),
               "asset_update_bitasset", [margin_call_fee_ratio |-> mcfr])

\* ---------------------------------------------------------------- genesis
InitBalance == 12

\* the order books, balances and counters at genesis
GenesisState ==
    /\ balance = [acc \in Accounts |->
                    [a \in Assets |-> IF acc \in Traders /\ a = CORE
                                      THEN InitBalance ELSE 0]]
    /\ vesting = [acc \in Accounts |-> [a \in Assets |-> 0]]
    /\ statistics = [acc \in Accounts |-> [total_core_in_orders |-> 0, pending_fees |-> 0]]
    /\ dynamic_data = [a \in Assets |->
                         [current_supply |-> IF a = CORE THEN 2 * InitBalance ELSE 0,
                          fee_pool |-> 0, accumulated_fees |-> 0,
                          accumulated_collateral_fees |-> 0]]
    /\ bitasset_data = [a \in {MIA} |->
          [options |-> [short_backing_asset |-> CORE,
                        margin_call_fee_ratio |-> Some(500),
                        force_settle_fee_percent |-> Some(2500),
                        feed_lifetime_sec |-> 10, force_settlement_delay_sec |-> 10],
           is_prediction_market |-> FALSE,
           current_feed |-> Feed(P(1, 1), 1750, 1500),
           current_maintenance_collateralization |->
               maintenance_collateralization(Feed(P(1, 1), 1750, 1500)),
           settlement_price |-> NullPrice,
           settlement_fund |-> 0]]
    /\ limit_orders = <<>>
    /\ call_orders = <<>>
    /\ settle_orders = <<>>
    /\ next_id = 1
    /\ last_op = [op |-> "genesis", args |-> [block |-> 0], ok |-> TRUE, vops |-> <<>>,
                  log |-> <<>>]
    /\ op_count = 0

GenesisAssetOptions ==
    [a \in Assets |->
          [issuer |-> IF a = CORE THEN GRAPHENE_COMMITTEE_ACCOUNT ELSE "issuer",
           precision |-> 5,
           charge_market_fee |-> a = MIA,
           market_fee_percent |-> 5000,
           taker_fee_percent |-> None,
           max_market_fee |-> GRAPHENE_MAX_SHARE_SUPPLY,
           reward_percent |-> Some(5000),
           whitelist_market_fee_sharing |-> [valid |-> FALSE, value |-> {}],
           max_supply |-> 30,
           can_create_new_supply |-> TRUE,
           can_global_settle |-> TRUE,
           can_force_settle |-> TRUE,
           feed_producers |-> {"issuer"}]]

GenesisAccounts ==
    [acc \in Accounts |->
          [registrar |-> IF acc = "bob" THEN "alice" ELSE GRAPHENE_COMMITTEE_ACCOUNT,
           referrer |-> IF acc = "bob" THEN "alice" ELSE GRAPHENE_COMMITTEE_ACCOUNT,
           referrer_rewards_percentage |-> 5000]]

GenesisParameters ==
    [market_fee_network_percent |-> 5000,
     maker_fee_discount_percent |-> 5000,
     create_fee |-> 2, create_fee_paid |-> 1,
     cancel_fee |-> 1, block_interval |-> 5]

Init ==
    /\ GenesisState
    /\ asset_options = GenesisAssetOptions
    /\ accounts = GenesisAccounts
    /\ authorized = [acc \in Accounts |-> [a \in Assets |-> TRUE]]
    /\ global_params = GenesisParameters

Next ==
    \/ LimitOrderCreate
    \/ LimitOrderCancel
    \/ CallOrderUpdate
    \/ AssetPublishFeed
    \/ AssetSettle
    \/ ProcessForceSettlement
    \/ AssetGlobalSettle
    \/ AssetClaimFees
    \/ AssetIssue
    \/ AssetReserve
    \/ AssetUpdateBitasset

Spec == Init /\ [][Next]_vars

\* ------------------------------------------------- the fee engine alone
\* pay_market_fees called on its own, under every fee configuration
MaxFeeCalls == 2
FeeReceives == {0, 1, 7, 16}
FeeSellers == {"bob", "null"}
NetworkPercents == {0, 5000, 10000}
RewardPercents == {None, Some(0), Some(5000), Some(10000)}
TakerPercents == {None, Some(10000)}
Whitelists == {[valid |-> FALSE, value |-> {}], [valid |-> TRUE, value |-> {}],
               [valid |-> TRUE, value |-> {"alice"}],
               [valid |-> TRUE, value |-> {"issuer"}]}
ReferrerPercents == {0, 5000, 10000}
Referrers == {"alice", "issuer", GRAPHENE_TEMP_ACCOUNT}

InitFees ==
    /\ GenesisState
    /\ \E reward_percent \in RewardPercents, white_list \in Whitelists,
          taker \in TakerPercents :
          asset_options =
              [GenesisAssetOptions EXCEPT
                  ![MIA].reward_percent = reward_percent,
                  ![MIA].whitelist_market_fee_sharing = white_list,
                  ![MIA].taker_fee_percent = taker]
    /\ \E referrer \in Referrers, percentage \in ReferrerPercents :
          accounts = [GenesisAccounts EXCEPT
                         !["bob"].referrer = referrer,
                         !["bob"].referrer_rewards_percentage = percentage]
    /\ \E registrar_ok \in BOOLEAN, referrer_ok \in BOOLEAN :
          authorized = [acc \in Accounts |-> [a \in Assets |->
                           IF a = CORE THEN TRUE
                           ELSE IF acc = "alice" THEN registrar_ok
                           ELSE IF acc = "issuer" THEN referrer_ok
                           ELSE TRUE]]
    /\ \E network_percent \in NetworkPercents :
          global_params = [GenesisParameters EXCEPT
                              !.market_fee_network_percent = network_percent]

PayMarketFees ==
    \E seller \in FeeSellers, receives \in FeeReceives, is_maker \in BOOLEAN :
        /\ op_count < MaxFeeCalls
        /\ Commit(pay_market_fees(DB, seller, MIA, Asset(receives, MIA), is_maker),
                  "pay_market_fees",
                  [seller |-> seller, receives |-> receives, is_maker |-> is_maker])

NextFees == PayMarketFees

SpecFees == InitFees /\ [][NextFees]_vars

\* --------------------------------------------- the matching engine alone
\* match, apply_order and check_call_orders called on a book of one call order
\* (id 3, alice's), one order resting on the book (id 1, alice's) and bob's
\* order (id 2), which is either new or what earlier matches of apply_order
\* have left of it.
MaxMatchCalls == 2
TakerId == 2
MakerId == 1
SecondMakerId == 0
CallId == 3
SecondCallId == 4

\* a feed with the call orders under it (alice's, and a second one of bob's);
\* debt 0 stands for no call order, a
\* null feed for a feed that has expired, and the last market is a prediction
\* market
MatchMarkets ==
    {[feed |-> Feed(P(1, 10), 1750, 1100), debt |-> 100, collateral |-> 1700,
      second_debt |-> 0, second_collateral |-> 0, prediction |-> FALSE],
     [feed |-> Feed(P(2, 1), 1750, 1500), debt |-> 8, collateral |-> 7,
      second_debt |-> 0, second_collateral |-> 0, prediction |-> FALSE],
     [feed |-> Feed(P(2, 1), 1750, 1500), debt |-> 200, collateral |-> 101,
      second_debt |-> 0, second_collateral |-> 0, prediction |-> FALSE],
     [feed |-> Feed(P(1, 1), 1750, 1500), debt |-> 0, collateral |-> 0,
      second_debt |-> 0, second_collateral |-> 0, prediction |-> FALSE],
     [feed |-> Feed(NullPrice, 0, 0), debt |-> 8, collateral |-> 7,
      second_debt |-> 0, second_collateral |-> 0, prediction |-> FALSE],
     [feed |-> Feed(P(5, 3), 1750, 1500), debt |-> 10, collateral |-> 10,
      second_debt |-> 0, second_collateral |-> 0, prediction |-> TRUE],
     [feed |-> Feed(P(1, 10), 1750, 1100), debt |-> 3, collateral |-> 51,
      second_debt |-> 0, second_collateral |-> 0, prediction |-> FALSE],
     [feed |-> Feed(P(2, 1), 1750, 1500), debt |-> 8, collateral |-> 16,
      second_debt |-> 0, second_collateral |-> 0, prediction |-> FALSE],
     [feed |-> Feed(P(2, 1), 1750, 1500), debt |-> 8, collateral |-> 7,
      second_debt |-> 6, second_collateral |-> 5, prediction |-> FALSE],
     [feed |-> Feed(P(2, 1), 1750, 1500), debt |-> 5, collateral |-> 4,
      second_debt |-> 6, second_collateral |-> 12, prediction |-> FALSE],
     [feed |-> Feed(P(1, 10), 1750, 1100), debt |-> 100, collateral |-> 1200,
      second_debt |-> 0, second_collateral |-> 0, prediction |-> FALSE],
     [feed |-> Feed(P(1, 10), 1750, 1100), debt |-> 3, collateral |-> 31,
      second_debt |-> 0, second_collateral |-> 0, prediction |-> FALSE]}
MatchMcfrs == {None, Some(0), Some(50)}

\* an order as created (amount_to_sell for min_to_receive) and what is left
\* for sale of it; for_sale 0 stands for no order
Offer(sell, recv, left) ==
    [amount_to_sell |-> sell, min_to_receive |-> recv, for_sale |-> left]
MatchMakers ==
    {Offer(Asset(1, MIA), Asset(1, CORE), 0),
     Offer(Asset(3, MIA), Asset(5, CORE), 3),
     Offer(Asset(4, MIA), Asset(4, CORE), 4),
     Offer(Asset(6, CORE), Asset(4, MIA), 5)}
\* an older order of alice's on the maker's side: none, one priced as the
\* maker's best offer, one priced better and one priced worse
SecondMakers ==
    {Offer(Asset(1, CORE), Asset(1, MIA), 0),
     Offer(Asset(6, CORE), Asset(4, MIA), 6),
     Offer(Asset(4, CORE), Asset(2, MIA), 4),
     Offer(Asset(5, CORE), Asset(4, MIA), 5)}
MatchTakers ==
    {Offer(Asset(50, MIA), Asset(525, CORE), 50),
     Offer(Asset(4, MIA), Asset(2, CORE), 4),
     Offer(Asset(4, MIA), Asset(2, CORE), 1),
     Offer(Asset(3, MIA), Asset(3, CORE), 3),
     Offer(Asset(8, MIA), Asset(4, CORE), 8),
     Offer(Asset(3, MIA), Asset(30, CORE), 3),
     Offer(Asset(5, CORE), Asset(3, MIA), 5),
     Offer(Asset(5, CORE), Asset(3, MIA), 1)}

\* the limit_order_object of an offer: the creation fee is deferred on an order
\* until its first fill
OrderOf(seller, o) ==
    [seller |-> seller, for_sale |-> o.for_sale,
     sell_price |-> Price(o.amount_to_sell, o.min_to_receive),
     deferred_fee |-> IF o.for_sale = o.amount_to_sell.amount
                      THEN GenesisParameters.create_fee ELSE 0,
     deferred_paid_fee |-> Asset(0, CORE)]

\* the book of a market: alice's and bob's call orders with their target
\* collateral ratios, alice's orders maker and second and bob's order taker
MatchBook(market, mcfr, maker, second, taker, tcr, second_tcr) ==
        LET Locked(o, a) == IF o.amount_to_sell.asset_id = a THEN o.for_sale ELSE 0 IN
        /\ balance = [acc \in Accounts |-> [a \in Assets |->
                         IF acc \in Traders /\ a = CORE THEN InitBalance
                         ELSE IF acc = "bob" /\ a = MIA
                              THEN market.debt + market.second_debt
                         ELSE 0]]
        /\ vesting = [acc \in Accounts |-> [a \in Assets |-> 0]]
        /\ statistics = [acc \in Accounts |->
              [total_core_in_orders |->
                   IF acc = "alice"
                   THEN Locked(maker, CORE) + Locked(second, CORE) + market.collateral
                   ELSE IF acc = "bob"
                        THEN Locked(taker, CORE) + market.second_collateral
                   ELSE 0,
               pending_fees |-> 0]]
        /\ dynamic_data = [a \in Assets |->
              [current_supply |->
                   IF a = CORE
                   THEN 2 * InitBalance + market.collateral + market.second_collateral
                        + Locked(maker, CORE) + Locked(second, CORE)
                        + Locked(taker, CORE)
                        + OrderOf("alice", maker).deferred_fee
                        + OrderOf("alice", second).deferred_fee
                        + OrderOf("bob", taker).deferred_fee
                   ELSE market.debt + market.second_debt
                        + Locked(maker, MIA) + Locked(second, MIA)
                        + Locked(taker, MIA),
               fee_pool |-> 0, accumulated_fees |-> 0,
               accumulated_collateral_fees |-> 0]]
        /\ bitasset_data = [a \in {MIA} |->
              [options |-> [short_backing_asset |-> CORE,
                            margin_call_fee_ratio |-> mcfr,
                            force_settle_fee_percent |-> Some(2500),
                            feed_lifetime_sec |-> 10, force_settlement_delay_sec |-> 10],
               is_prediction_market |-> market.prediction,
               current_feed |-> market.feed,
               current_maintenance_collateralization |->
                   maintenance_collateralization(market.feed),
               settlement_price |-> NullPrice,
               settlement_fund |-> 0]]
        /\ limit_orders =
              [i \in (IF maker.for_sale > 0 THEN {MakerId} ELSE {})
                     \cup (IF second.for_sale > 0 THEN {SecondMakerId} ELSE {})
                     \cup {TakerId} |->
                   IF i = MakerId THEN OrderOf("alice", maker)
                   ELSE IF i = SecondMakerId THEN OrderOf("alice", second)
                   ELSE OrderOf("bob", taker)]
        /\ call_orders =
              [i \in (IF market.debt > 0 THEN {CallId} ELSE {})
                     \cup (IF market.second_debt > 0 THEN {SecondCallId} ELSE {}) |->
                   [borrower |-> IF i = CallId THEN "alice" ELSE "bob",
                    debt |-> IF i = CallId THEN market.debt ELSE market.second_debt,
                    collateral |-> IF i = CallId THEN market.collateral
                                   ELSE market.second_collateral,
                    debt_type |-> MIA,
                    collateral_type |-> CORE,
                    target_collateral_ratio |-> IF i = CallId THEN tcr
                                                ELSE second_tcr]]
        /\ settle_orders = <<>>
        /\ next_id = 5
        /\ last_op = [op |-> "genesis", args |-> [block |-> 0], ok |-> TRUE,
                      vops |-> <<>>, log |-> <<>>, ret |-> 0]
        /\ op_count = 0
        /\ asset_options = GenesisAssetOptions
        /\ accounts = GenesisAccounts
        /\ authorized = [acc \in Accounts |-> [a \in Assets |-> TRUE]]
        /\ global_params = GenesisParameters

InitMatch ==
    \E market \in MatchMarkets, mcfr \in MatchMcfrs,
       maker \in MatchMakers, second \in SecondMakers, taker \in MatchTakers :
        MatchBook(market, mcfr, maker, second, taker, None, None)

\* a call of the engine returns r.ret, or throws and is undone
Returned(r, name, args) ==
    /\ op_count < MaxMatchCalls
    /\ last_op.ok
    /\ balance' = IF r.err THEN balance ELSE r.bal
    /\ vesting' = IF r.err THEN vesting ELSE r.vest
    /\ statistics' = IF r.err THEN statistics ELSE r.stats
    /\ dynamic_data' = IF r.err THEN dynamic_data ELSE r.dyn
    /\ bitasset_data' = IF r.err THEN bitasset_data ELSE r.bit
    /\ limit_orders' = IF r.err THEN limit_orders ELSE r.lim
    /\ call_orders' = IF r.err THEN call_orders ELSE r.calls
    /\ settle_orders' = IF r.err THEN settle_orders ELSE r.settles
    /\ next_id' = IF r.err THEN next_id ELSE r.nid
    /\ last_op' = [op |-> name, args |-> args, ok |-> ~r.err,
                   vops |-> IF r.err THEN <<>> ELSE r.vops, log |-> r.log,
                   ret |-> IF r.err THEN "exception" ELSE r.ret]
    /\ op_count' = op_count + 1
    /\ UNCHANGED cfgvars

\* the range of apply_order: maker is on the other side of taker's market,
\* within the price the taker accepts
InRange(taker, maker) ==
    /\ sell_asset_id(maker) = receive_asset_id(taker)
    /\ receive_asset_id(maker) = sell_asset_id(taker)
    /\ PriceGE(maker.sell_price, Inv(taker.sell_price))

\* the orders on the book are as operations leave them: none would receive
\* nothing, no two of them match, and no margin call is due
BookAtRest(lim) ==
    /\ \A i \in DOMAIN lim : amount_to_receive(lim[i]).amount > 0
    /\ \A i, j \in DOMAIN lim : ~InRange(lim[i], lim[j])
    /\ LET r == check_call_orders([DB EXCEPT !.lim = lim], MIA, TRUE, FALSE)
       IN  ~r.err /\ r.vops = <<>>

\* apply_order's call of match( limit, limit ) on the new order and the best
\* order of the other side
MatchLimitLimit ==
    /\ TakerId \in DOMAIN limit_orders
    /\ RangeByPrice(limit_orders, Inv(limit_orders[TakerId].sell_price)) /= <<>>
    /\ BookAtRest(Drop(limit_orders, TakerId))
    /\ LET maker_id ==
               Head(RangeByPrice(limit_orders, Inv(limit_orders[TakerId].sell_price)))
       IN  Returned(match_limit_limit(DB, TakerId, maker_id,
                                      limit_orders[maker_id].sell_price),
                    "match_limit_limit", [taker |-> TakerId, maker |-> maker_id])

\* apply_order's call of match( limit, call ) on the new order and the least
\* collateralized call order, once no limit order is priced better
MatchLimitCall ==
    LET sell_abd == bitasset_data[MIA]
        call_match_price ==
            Inv(margin_call_order_price(sell_abd.current_feed, mcfr_of(sell_abd)))
        call_pays_price == Inv(max_short_squeeze_price(sell_abd.current_feed))
        call_id == WeakestCall(call_orders, CORE, MIA)
    IN  /\ TakerId \in DOMAIN limit_orders
        /\ CallsOf(call_orders, CORE, MIA) /= {}
        /\ BookAtRest(Drop(limit_orders, TakerId))
        /\ sell_asset_id(limit_orders[TakerId]) = MIA
        /\ receive_asset_id(limit_orders[TakerId]) = sell_abd.options.short_backing_asset
        /\ ~sell_abd.is_prediction_market
        /\ ~has_settlement(sell_abd)
        /\ ~is_null(sell_abd.current_feed.settlement_price)
        /\ PriceLE(Inv(limit_orders[TakerId].sell_price), call_match_price)
        /\ ~\E m \in DOMAIN limit_orders :
               /\ InRange(limit_orders[TakerId], limit_orders[m])
               /\ PriceGT(limit_orders[m].sell_price, call_match_price)
        /\ ~PriceGT(collateralization(call_orders[call_id]),
                    sell_abd.current_maintenance_collateralization)
        /\ Returned(match_limit_call(DB, TakerId, call_id, call_match_price,
                                     sell_abd.current_feed.settlement_price,
                                     sell_abd.current_feed.maintenance_collateral_ratio,
                                     sell_abd.current_maintenance_collateralization,
                                     call_pays_price),
                    "match_limit_call", [taker |-> TakerId, call |-> call_id])

\* apply_order on bob's new order, put on a book at rest
ApplyOrder ==
    /\ TakerId \in DOMAIN limit_orders
    /\ limit_orders[TakerId].for_sale = limit_orders[TakerId].sell_price.base.amount
    /\ BookAtRest(Drop(limit_orders, TakerId))
    /\ Returned(apply_order(DB, TakerId), "apply_order", [order |-> TakerId])

\* check_call_orders on a book whose limit orders are at rest, as after a
\* change of the feed
CheckCallOrders ==
    \E enable_black_swan \in BOOLEAN :
        /\ \A i \in DOMAIN limit_orders : amount_to_receive(limit_orders[i]).amount > 0
        /\ \A i, j \in DOMAIN limit_orders : ~InRange(limit_orders[i], limit_orders[j])
        /\ Returned(check_call_orders(DB, MIA, enable_black_swan, FALSE),
                    "check_call_orders", [enable_black_swan |-> enable_black_swan])

NextMatch ==
    \/ MatchLimitLimit
    \/ MatchLimitCall
    \/ ApplyOrder
    \/ CheckCallOrders

SpecMatch == InitMatch /\ [][NextMatch]_vars

\* ------------------------------- call orders with a target collateral ratio
\* markets whose feed puts alice's call order under the maintenance
\* collateralization; bob's is under it, above it or absent
CoverMarkets ==
    {[feed |-> Feed(P(1, 2), 1750, 1100), debt |-> 10, collateral |-> 30,
      second_debt |-> 6, second_collateral |-> 20, prediction |-> FALSE],
     [feed |-> Feed(P(1, 2), 1750, 1100), debt |-> 10, collateral |-> 30,
      second_debt |-> 4, second_collateral |-> 20, prediction |-> FALSE],
     [feed |-> Feed(P(1, 2), 1750, 1100), debt |-> 10, collateral |-> 30,
      second_debt |-> 0, second_collateral |-> 0, prediction |-> FALSE],
     [feed |-> Feed(P(1, 2), 1750, 1100), debt |-> 10, collateral |-> 23,
      second_debt |-> 6, second_collateral |-> 20, prediction |-> FALSE]}
CoverRatios == {None, Some(1500), Some(2000)}
CoverMakers ==
    {Offer(Asset(1, MIA), Asset(1, CORE), 0),
     Offer(Asset(3, MIA), Asset(6, CORE), 3)}
CoverTakers ==
    {Offer(Asset(20, MIA), Asset(42, CORE), 20),
     Offer(Asset(5, MIA), Asset(10, CORE), 5),
     Offer(Asset(8, MIA), Asset(16, CORE), 8)}

InitCover ==
    \E market \in CoverMarkets, mcfr \in {None, Some(50)}, maker \in CoverMakers,
       taker \in CoverTakers, tcr \in CoverRatios, second_tcr \in CoverRatios :
        MatchBook(market, mcfr, maker, Offer(Asset(1, CORE), Asset(1, MIA), 0),
                  taker, tcr, second_tcr)

NextCover ==
    \/ MatchLimitCall
    \/ ApplyOrder
    \/ CheckCallOrders

SpecCover == InitCover /\ [][NextCover]_vars

\* ------------------------------------- settling a globally settled asset
\* asset_settle called on MIA as a global settlement leaves it: the supply,
\* all of it alice's, the fund gathered for it, and their quotient as the
\* settlement price
SettledSupplies == {3, 4, 5}
SettledFunds == {1, 3, 5, 8}

InitSettle ==
    \E supply \in SettledSupplies, fund \in SettledFunds :
        /\ balance = [acc \in Accounts |-> [a \in Assets |->
                         IF acc \in Traders /\ a = CORE THEN InitBalance
                         ELSE IF acc = "alice" /\ a = MIA THEN supply
                         ELSE 0]]
        /\ vesting = [acc \in Accounts |-> [a \in Assets |-> 0]]
        /\ statistics = [acc \in Accounts |-> [total_core_in_orders |-> 0, pending_fees |-> 0]]
        /\ dynamic_data = [a \in Assets |->
              [current_supply |-> IF a = CORE THEN 2 * InitBalance + fund ELSE supply,
               fee_pool |-> 0, accumulated_fees |-> 0,
               accumulated_collateral_fees |-> 0]]
        /\ bitasset_data = [a \in {MIA} |->
              [options |-> [short_backing_asset |-> CORE,
                            margin_call_fee_ratio |-> None,
                            force_settle_fee_percent |-> Some(2500),
                            feed_lifetime_sec |-> 10, force_settlement_delay_sec |-> 10],
               is_prediction_market |-> FALSE,
               current_feed |-> Feed(P(1, 1), 1750, 1500),
               current_maintenance_collateralization |->
                   maintenance_collateralization(Feed(P(1, 1), 1750, 1500)),
               settlement_price |-> P(supply, fund),
               settlement_fund |-> fund]]
        /\ limit_orders = <<>>
        /\ call_orders = <<>>
        /\ settle_orders = <<>>
        /\ next_id = 1
        /\ last_op = [op |-> "genesis", args |-> [block |-> 0], ok |-> TRUE,
                      vops |-> <<>>, log |-> <<>>]
        /\ op_count = 0
        /\ asset_options = GenesisAssetOptions
        /\ accounts = GenesisAccounts
        /\ authorized = [acc \in Accounts |-> [a \in Assets |-> TRUE]]
        /\ global_params = GenesisParameters

NextSettle == AssetSettle

SpecSettle == InitSettle /\ [][NextSettle]_vars

\* ------------------------------------------ changing the backing asset
\* MIA with no feed published: a debt position of bob's or none, and an amount
\* of the backing asset taken from alice and accumulated in MIA as collateral
\* fees; ICOIN is the user-issued asset proposed as the new backing asset
ICOIN == "ICOIN"
BackedPositions == {[debt |-> 0, collateral |-> 0], [debt |-> 4, collateral |-> 8]}
CollateralFees == {0, 1, 2}

InitBacking ==
    \E position \in BackedPositions, fees \in CollateralFees :
        /\ balance = [acc \in Accounts |-> [a \in Assets |->
                         IF acc = "alice" /\ a = CORE THEN InitBalance - fees
                         ELSE IF acc = "bob" /\ a = CORE
                              THEN InitBalance - position.collateral
                         ELSE IF acc = "bob" /\ a = MIA THEN position.debt
                         ELSE 0]]
        /\ vesting = [acc \in Accounts |-> [a \in Assets |-> 0]]
        /\ statistics = [acc \in Accounts |-> [total_core_in_orders |-> 0, pending_fees |-> 0]]
        /\ dynamic_data = [a \in Assets |->
              [current_supply |-> IF a = CORE THEN 2 * InitBalance ELSE position.debt,
               fee_pool |-> 0, accumulated_fees |-> 0,
               accumulated_collateral_fees |-> IF a = MIA THEN fees ELSE 0]]
        /\ bitasset_data = [a \in {MIA} |->
              [options |-> [short_backing_asset |-> CORE,
                            margin_call_fee_ratio |-> None,
                            force_settle_fee_percent |-> Some(2500),
                            feed_lifetime_sec |-> 10, force_settlement_delay_sec |-> 10],
               is_prediction_market |-> FALSE,
               current_feed |-> Feed(NullPrice, 0, 0),
               current_maintenance_collateralization |-> NullPrice,
               settlement_price |-> NullPrice,
               settlement_fund |-> 0]]
        /\ limit_orders = <<>>
        /\ call_orders =
              [i \in (IF position.debt > 0 THEN {1} ELSE {}) |->
                   [borrower |-> "bob", debt |-> position.debt,
                    collateral |-> position.collateral, debt_type |-> MIA,
                    collateral_type |-> CORE, target_collateral_ratio |-> None]]
        /\ settle_orders = <<>>
        /\ next_id = 2
        /\ last_op = [op |-> "genesis", args |-> [block |-> 0], ok |-> TRUE,
                      vops |-> <<>>, log |-> <<>>]
        /\ op_count = 0
        /\ asset_options = GenesisAssetOptions
        /\ accounts = GenesisAccounts
        /\ authorized = [acc \in Accounts |-> [a \in Assets |-> TRUE]]
        /\ global_params = GenesisParameters

ChangeBackingAsset ==
    \E new_backing \in {CORE, ICOIN} :
        Commit(asset_update_bitasset(DB, "issuer", MIA,
                   [bitasset_data[MIA].options EXCEPT !.short_backing_asset = new_backing]),
               "asset_update_bitasset", [short_backing_asset |-> new_backing])

NextBacking ==
    \/ AssetClaimFees
    \/ ChangeBackingAsset

SpecBacking == InitBacking /\ [][NextBacking]_vars

\* ------------------------------------------- chains of backing assets
\* the assets of bitasset_evaluator_test_after_922_931: the committee's USDBIT,
\* PARENT and its CHILD, whose issuer is a user or the committee, the
\* prediction market PREDICTION, and the user-issued USERISSUED and
\* SIXPRECISION; none has supply or fees
MarketIssued == {"USDBIT", "PARENT", "CHILD", "PREDICTION"}
ChainAssets == {CORE, "USERISSUED", "SIXPRECISION"} \cup MarketIssued

InitChain ==
    \E child_issuer \in {"issuer", GRAPHENE_COMMITTEE_ACCOUNT},
       child_backing \in {CORE, "PARENT"},
       prediction \in {[precision |-> 5, backing |-> CORE],
                       [precision |-> 6, backing |-> "SIXPRECISION"]} :
        /\ balance = [acc \in Accounts |-> [a \in Assets |->
                         IF acc \in Traders /\ a = CORE THEN InitBalance ELSE 0]]
        /\ vesting = [acc \in Accounts |-> [a \in Assets |-> 0]]
        /\ statistics = [acc \in Accounts |-> [total_core_in_orders |-> 0, pending_fees |-> 0]]
        /\ dynamic_data = [a \in ChainAssets |->
              [current_supply |-> IF a = CORE THEN 2 * InitBalance ELSE 0,
               fee_pool |-> 0, accumulated_fees |-> 0,
               accumulated_collateral_fees |-> 0]]
        /\ bitasset_data = [a \in MarketIssued |->
              [options |-> [short_backing_asset |->
                                IF a = "CHILD" THEN child_backing
                                ELSE IF a = "PREDICTION" THEN prediction.backing
                                ELSE CORE,
                            margin_call_fee_ratio |-> None,
                            force_settle_fee_percent |-> Some(2500),
                            feed_lifetime_sec |-> 10, force_settlement_delay_sec |-> 10],
               is_prediction_market |-> a = "PREDICTION",
               current_feed |-> Feed(NullPrice, 0, 0),
               current_maintenance_collateralization |-> NullPrice,
               settlement_price |-> NullPrice,
               settlement_fund |-> 0]]
        /\ limit_orders = <<>>
        /\ call_orders = <<>>
        /\ settle_orders = <<>>
        /\ next_id = 1
        /\ last_op = [op |-> "genesis", args |-> [block |-> 0], ok |-> TRUE,
                      vops |-> <<>>, log |-> <<>>]
        /\ op_count = 0
        /\ asset_options = [a \in ChainAssets |->
              [GenesisAssetOptions[MIA] EXCEPT
                  !.issuer = IF a \in {CORE, "USDBIT"} THEN GRAPHENE_COMMITTEE_ACCOUNT
                             ELSE IF a = "CHILD" THEN child_issuer
                             ELSE "issuer",
                  !.precision = IF a = "SIXPRECISION" THEN 6
                                ELSE IF a = "PREDICTION" THEN prediction.precision
                                ELSE 5]]
        /\ accounts = GenesisAccounts
        /\ authorized = [acc \in Accounts |-> [a \in Assets |-> TRUE]]
        /\ global_params = GenesisParameters

UpdateBackingAsset ==
    \E asset_to_update \in MarketIssued, new_backing \in ChainAssets :
        Commit(asset_update_bitasset(DB, asset_options[asset_to_update].issuer,
                   asset_to_update,
                   [bitasset_data[asset_to_update].options
                       EXCEPT !.short_backing_asset = new_backing]),
               "asset_update_bitasset",
               [asset_to_update |-> asset_to_update, short_backing_asset |-> new_backing])

SpecChain == InitChain /\ [][UpdateBackingAsset]_vars

\* ------------------------------------------- the deferred fees of an order
\* alice's order 1 sells 10 CORE for 10 MIA and carries the creation fee that
\* was deferred on it, paid in CORE or, through the fee pool, in MIA; bob's
\* orders 2 and 3 each sell 4 MIA for 4 CORE; order 2 carries one of the
\* smaller fees, paid in CORE or in MIA, and order 3 carries nothing
DeferredOrders ==
    {[deferred_fee |-> 0, deferred_paid_fee |-> 0],
     [deferred_fee |-> 1, deferred_paid_fee |-> 0],
     [deferred_fee |-> 7, deferred_paid_fee |-> 3],
     [deferred_fee |-> 100, deferred_paid_fee |-> 0],
     [deferred_fee |-> 100, deferred_paid_fee |-> 50]}
FeeSchedules == [maker_fee_discount_percent : {0, 2000, 5000}, cancel_fee : {0, 2, 30}]

InitDeferred ==
    \E deferred \in DeferredOrders, schedule \in FeeSchedules,
       second \in {d \in DeferredOrders : d.deferred_fee <= 7} :
        /\ balance = [acc \in Accounts |-> [a \in Assets |->
                         IF acc \in Traders /\ a = CORE THEN InitBalance ELSE 0]]
        /\ vesting = [acc \in Accounts |-> [a \in Assets |-> 0]]
        /\ statistics = [acc \in Accounts |->
              [total_core_in_orders |-> IF acc = "alice" THEN 10 ELSE 0,
               pending_fees |-> 0]]
        /\ dynamic_data = [a \in Assets |->
              [current_supply |-> IF a = CORE
                                  THEN 2 * InitBalance + 10 + deferred.deferred_fee
                                           + second.deferred_fee
                                  ELSE 8 + deferred.deferred_paid_fee
                                         + second.deferred_paid_fee,
               fee_pool |-> 0, accumulated_fees |-> 0,
               accumulated_collateral_fees |-> 0]]
        /\ bitasset_data = [a \in {MIA} |->
              [options |-> [short_backing_asset |-> CORE,
                            margin_call_fee_ratio |-> None,
                            force_settle_fee_percent |-> Some(2500),
                            feed_lifetime_sec |-> 10, force_settlement_delay_sec |-> 10],
               is_prediction_market |-> FALSE,
               current_feed |-> Feed(NullPrice, 0, 0),
               current_maintenance_collateralization |-> NullPrice,
               settlement_price |-> NullPrice,
               settlement_fund |-> 0]]
        /\ limit_orders = [i \in {1, 2, 3} |->
              IF i = 1
              THEN [seller |-> "alice", for_sale |-> 10,
                    sell_price |-> Price(Asset(10, CORE), Asset(10, MIA)),
                    deferred_fee |-> deferred.deferred_fee,
                    deferred_paid_fee |-> Asset(deferred.deferred_paid_fee, MIA)]
              ELSE IF i = 2
              THEN [seller |-> "bob", for_sale |-> 4,
                    sell_price |-> Price(Asset(4, MIA), Asset(4, CORE)),
                    deferred_fee |-> second.deferred_fee,
                    deferred_paid_fee |->
                        Asset(second.deferred_paid_fee,
                              IF second.deferred_paid_fee > 0 THEN MIA ELSE CORE)]
              ELSE [seller |-> "bob", for_sale |-> 4,
                    sell_price |-> Price(Asset(4, MIA), Asset(4, CORE)),
                    deferred_fee |-> 0, deferred_paid_fee |-> Asset(0, CORE)]]
        /\ call_orders = <<>>
        /\ settle_orders = <<>>
        /\ next_id = 4
        /\ last_op = [op |-> "genesis", args |-> [block |-> 0], ok |-> TRUE,
                      vops |-> <<>>, log |-> <<>>]
        /\ op_count = 0
        /\ asset_options = GenesisAssetOptions
        /\ accounts = GenesisAccounts
        /\ authorized = [acc \in Accounts |-> [a \in Assets |-> TRUE]]
        /\ global_params = [GenesisParameters EXCEPT
              !.maker_fee_discount_percent = schedule.maker_fee_discount_percent,
              !.cancel_fee = schedule.cancel_fee]

\* order 1 is filled by a match with one of bob's orders, as maker or as taker
MatchDeferred ==
    \E other \in DOMAIN limit_orders \ {1}, is_maker \in BOOLEAN :
        /\ 1 \in DOMAIN limit_orders
        /\ Commit(IF is_maker
                  THEN match_limit_limit(DB, other, 1, limit_orders[1].sell_price)
                  ELSE match_limit_limit(DB, 1, other, limit_orders[other].sell_price),
                  "match", [order |-> 1, other |-> other, is_maker |-> is_maker])

\* order 1 is cancelled: by its owner, or as expired or culled
CancelDeferred ==
    \E create_virtual_op \in BOOLEAN, skip_cancel_fee \in BOOLEAN :
        /\ 1 \in DOMAIN limit_orders
        /\ Commit(cancel_limit_order(DB, 1, create_virtual_op, skip_cancel_fee),
                  "cancel_limit_order",
                  [order |-> 1, create_virtual_op |-> create_virtual_op,
                   skip_cancel_fee |-> skip_cancel_fee])

SpecDeferred == InitDeferred /\ [][MatchDeferred \/ CancelDeferred]_vars

\* ------------------------------------------- dust in match( call, settle )
\* alice's call order, the least collateralized, bob's call order of 10 MIA
\* backed by 100 CORE, and bob's force settlement of part of the supply
DustOrders ==
    [call : {[debt |-> 1, collateral |-> 1], [debt |-> 3, collateral |-> 5],
             [debt |-> 10, collateral |-> 12]},
     settle_balance : {1, 2, 10}]

\* the price of the feed and the most the asset may settle in the interval
DustMatches == [match_price : {P(3, 1), P(1, 1), P(1, 2)}, max_settlement : {1, 2, 100}]

InitDust ==
    \E order \in DustOrders :
        LET call == order.call
            settle_balance == order.settle_balance
        IN
        /\ balance = [acc \in Accounts |-> [a \in Assets |->
                         IF acc \in Traders /\ a = CORE THEN InitBalance
                         ELSE IF acc = "bob" /\ a = MIA
                              THEN call.debt + 10 - settle_balance
                         ELSE 0]]
        /\ vesting = [acc \in Accounts |-> [a \in Assets |-> 0]]
        /\ statistics = [acc \in Accounts |->
              [total_core_in_orders |-> IF acc = "alice" THEN call.collateral
                                        ELSE IF acc = "bob" THEN 100 ELSE 0,
               pending_fees |-> 0]]
        /\ dynamic_data = [a \in Assets |->
              [current_supply |-> IF a = CORE
                                  THEN 2 * InitBalance + call.collateral + 100
                                  ELSE call.debt + 10,
               fee_pool |-> 0, accumulated_fees |-> 0,
               accumulated_collateral_fees |-> 0]]
        /\ bitasset_data = [a \in {MIA} |->
              [options |-> [short_backing_asset |-> CORE,
                            margin_call_fee_ratio |-> None,
                            force_settle_fee_percent |-> Some(2500),
                            feed_lifetime_sec |-> 10, force_settlement_delay_sec |-> 10],
               is_prediction_market |-> FALSE,
               current_feed |-> Feed(NullPrice, 0, 0),
               current_maintenance_collateralization |-> NullPrice,
               settlement_price |-> NullPrice,
               settlement_fund |-> 0]]
        /\ limit_orders = <<>>
        /\ call_orders = [i \in {CallId, SecondCallId} |->
              [borrower |-> IF i = CallId THEN "alice" ELSE "bob",
               debt |-> IF i = CallId THEN call.debt ELSE 10,
               collateral |-> IF i = CallId THEN call.collateral ELSE 100,
               debt_type |-> MIA, collateral_type |-> CORE,
               target_collateral_ratio |-> None]]
        /\ settle_orders = [i \in {5} |->
              [owner |-> "bob", balance |-> Asset(settle_balance, MIA)]]
        /\ next_id = 6
        /\ last_op = [op |-> "genesis", args |-> [block |-> 0], ok |-> TRUE,
                      vops |-> <<>>, log |-> <<>>, ret |-> Asset(0, MIA)]
        /\ op_count = 0
        /\ asset_options = GenesisAssetOptions
        /\ accounts = GenesisAccounts
        /\ authorized = [acc \in Accounts |-> [a \in Assets |-> TRUE]]
        /\ global_params = GenesisParameters

\* the settlement engine's call of match( call, settle ) on the least
\* collateralized call order and a force settlement, at a price of the feed
\* that the collateral of the call order covers (the asset is globally
\* settled when it does not)
MatchCallSettle ==
    \E settle_id \in DOMAIN settle_orders, m \in DustMatches :
        /\ CallsOf(call_orders, CORE, MIA) /= {}
        /\ ~PriceLT(collateralization(
                        call_orders[WeakestCall(call_orders, CORE, MIA)]),
                    Inv(m.match_price))
        /\ LET call_id == WeakestCall(call_orders, CORE, MIA)
           IN  Returned(match_call_settle(DB, call_id, settle_id, m.match_price,
                                          Asset(m.max_settlement, MIA), m.match_price),
                        "match_call_settle",
                        [call |-> call_id, settle |-> settle_id,
                         match_price |-> m.match_price,
                         max_settlement |-> m.max_settlement])

SpecDust == InitDust /\ [][MatchCallSettle]_vars

\* ------------------------------------------------ calculate_market_fee alone
\* the market fee options of MIA
MarketFeeOptions ==
    [charge_market_fee : BOOLEAN,
     market_fee_percent : {0, 2500, GRAPHENE_100_PERCENT},
     taker_fee_percent : {None, Some(0), Some(5000), Some(GRAPHENE_100_PERCENT)},
     max_market_fee : {0, 3, GRAPHENE_MAX_SHARE_SUPPLY}]

\* the amounts traded
TradeAmounts == {0, 1, 3, 7, 16, 39999}

InitMarketFee ==
    /\ GenesisState
    /\ \E o \in MarketFeeOptions :
          asset_options =
              [GenesisAssetOptions EXCEPT
                  ![MIA].charge_market_fee = o.charge_market_fee,
                  ![MIA].market_fee_percent = o.market_fee_percent,
                  ![MIA].taker_fee_percent = o.taker_fee_percent,
                  ![MIA].max_market_fee = o.max_market_fee]
    /\ accounts = GenesisAccounts
    /\ authorized = [acc \in Accounts |-> [a \in Assets |-> TRUE]]
    /\ global_params = GenesisParameters

\* calculate_market_fee is const: it changes nothing and returns the fee
CalculateMarketFee ==
    \E amount \in TradeAmounts, is_maker \in BOOLEAN :
        LET r == calculate_market_fee(MIA, Asset(amount, MIA), is_maker)
        IN  /\ op_count < MaxFeeCalls
            /\ last_op' = [op |-> "calculate_market_fee",
                           args |-> [amount |-> amount, is_maker |-> is_maker],
                           ok |-> r.ok, vops |-> <<>>, log |-> <<>>,
                           ret |-> IF r.ok THEN r.fee ELSE -1]
            /\ op_count' = op_count + 1
            /\ UNCHANGED <<dbvars, cfgvars>>

SpecMarketFee == InitMarketFee /\ [][CalculateMarketFee]_vars

\* --------------------------------------------------- calculate_percent alone
\* share amounts: small ones, those around which the result reaches
\* GRAPHENE_MAX_SHARE_SUPPLY at the percentages tried, the maximum supply, and
\* beyond it 10^15 and the greatest int64_t
PercentValues ==
    {ToLimbs(n) : n \in {0, 1, 3, 9999, 10000, 10001, 152590219, 152590220,
                         500000000, 500000001, 999900010, 999900011,
                         GRAPHENE_MAX_SHARE_SUPPLY - 1, GRAPHENE_MAX_SHARE_SUPPLY}}
        \cup {<<0, 0, 0, 1000>>, <<5807, 5477, 368, 3372, 922>>}

\* uint16_t percentages, above 100% too
Percents == {0, 1, 100, 5000, GRAPHENE_100_PERCENT, 10001, 20000, 65535}

InitPercent ==
    /\ GenesisState
    /\ asset_options = GenesisAssetOptions
    /\ accounts = GenesisAccounts
    /\ authorized = [acc \in Accounts |-> [a \in Assets |-> TRUE]]
    /\ global_params = GenesisParameters

CalculatePercent ==
    \E value \in PercentValues, percent \in Percents :
        LET r == calculate_percent_uint128(value, percent)
        IN  /\ op_count < MaxFeeCalls
            /\ last_op' = [op |-> "calculate_percent",
                           args |-> [value |-> value, percent |-> percent],
                           ok |-> r.ok, vops |-> <<>>, log |-> <<>>,
                           ret |-> [value |-> r.value, intermediate |-> r.intermediate]]
            /\ op_count' = op_count + 1
            /\ UNCHANGED <<dbvars, cfgvars>>

SpecPercent == InitPercent /\ [][CalculatePercent]_vars

\* ------------------------------------------------------------ properties
\* the sum of f[x] over the x in S
RECURSIVE Sum(_, _)
Sum(f, S) ==
    IF S = {} THEN 0
    ELSE LET x == CHOOSE y \in S : TRUE IN f[x] + Sum(f, S \ {x})

\* what is held of asset a outside current_supply's own field: the balances,
\* the vesting balances, and every amount locked in an order or in a bucket of
\* an asset
Held(a) ==
      Sum([acc \in Accounts |-> balance[acc][a]], Accounts)
    + Sum([acc \in Accounts |-> vesting[acc][a]], Accounts)
    + Sum([i \in DOMAIN limit_orders |->
              (IF sell_asset_id(limit_orders[i]) = a THEN limit_orders[i].for_sale ELSE 0)
            + (IF a = CORE THEN limit_orders[i].deferred_fee ELSE 0)
            + (IF limit_orders[i].deferred_paid_fee.asset_id = a
               THEN limit_orders[i].deferred_paid_fee.amount ELSE 0)],
          DOMAIN limit_orders)
    + Sum([i \in DOMAIN call_orders |->
              IF call_orders[i].collateral_type = a THEN call_orders[i].collateral ELSE 0],
          DOMAIN call_orders)
    + Sum([i \in DOMAIN settle_orders |->
              IF settle_orders[i].balance.asset_id = a
              THEN settle_orders[i].balance.amount ELSE 0],
          DOMAIN settle_orders)
    + Sum([m \in DOMAIN bitasset_data |->
              IF bitasset_data[m].options.short_backing_asset = a
              THEN bitasset_data[m].settlement_fund
                   + dynamic_data[m].accumulated_collateral_fees
              ELSE 0],
          DOMAIN bitasset_data)
    + dynamic_data[a].accumulated_fees
    + (IF a = CORE
       THEN Sum([b \in Assets |-> dynamic_data[b].fee_pool], Assets)
            + Sum([acc \in Accounts |-> statistics[acc].pending_fees], Accounts)
       ELSE 0)

Conserved == \A a \in Assets : dynamic_data[a].current_supply = Held(a)

\* the step revives a globally settled asset
Revives == \E m \in DOMAIN bitasset_data :
              has_settlement(bitasset_data[m]) /\ ~has_settlement(bitasset_data'[m])

\* the fills of the operation just applied
Fills == {last_op.vops[i] : i \in {j \in 1..Len(last_op.vops) :
                                        last_op.vops[j].type = "fill_order"}}

C3_FundCoversSupply ==
    \A m \in DOMAIN bitasset_data :
        has_settlement(bitasset_data[m]) =>
            \/ /\ dynamic_data[m].current_supply = 0
               /\ bitasset_data[m].settlement_fund = 0
            \/ MulDown(Asset(dynamic_data[m].current_supply, m),
                       bitasset_data[m].settlement_price).amount
                   <= bitasset_data[m].settlement_fund

\* a holder settled part of the supply of a globally settled asset
C3_Witness ==
    /\ has_settlement(bitasset_data[MIA])
    /\ last_op.op = "asset_settle" /\ last_op.ok
    /\ dynamic_data[MIA].current_supply > 0
    /\ bitasset_data[MIA].settlement_fund > 0

\* C4: an account's total_core_in_orders is the core it sells in its limit
\* orders plus the core collateral of its call orders.
C4_TotalCoreInOrders ==
    \A acc \in Accounts :
        statistics[acc].total_core_in_orders =
              Sum([i \in DOMAIN limit_orders |->
                      IF limit_orders[i].seller = acc
                         /\ sell_asset_id(limit_orders[i]) = CORE
                      THEN limit_orders[i].for_sale ELSE 0], DOMAIN limit_orders)
            + Sum([i \in DOMAIN call_orders |->
                      IF call_orders[i].borrower = acc
                         /\ call_orders[i].collateral_type = CORE
                      THEN call_orders[i].collateral ELSE 0], DOMAIN call_orders)

\* an order paid core in a fill and its owner still has core in orders
C4_Witness ==
    \E f \in Fills :
        /\ f.pays.asset_id = CORE
        /\ statistics[f.account].total_core_in_orders > 0

\* C5: no amount is ever negative.
C5_NoNegativeAmounts ==
    /\ \A acc \in Accounts, a \in Assets : balance[acc][a] >= 0 /\ vesting[acc][a] >= 0
    /\ \A i \in DOMAIN limit_orders : limit_orders[i].for_sale >= 0
    /\ \A i \in DOMAIN call_orders :
           call_orders[i].debt >= 0 /\ call_orders[i].collateral >= 0
    /\ \A i \in DOMAIN settle_orders : settle_orders[i].balance.amount >= 0
    /\ \A a \in Assets :
           /\ dynamic_data[a].fee_pool >= 0
           /\ dynamic_data[a].accumulated_fees >= 0
           /\ dynamic_data[a].accumulated_collateral_fees >= 0
           /\ dynamic_data[a].current_supply >= 0
    /\ \A m \in DOMAIN bitasset_data : bitasset_data[m].settlement_fund >= 0

\* a seller paid their last unit of the asset into a fill
C5_Witness ==
    \E f \in Fills :
        /\ f.pays.asset_id = MIA
        /\ f.id \notin DOMAIN call_orders
        /\ balance[f.account][MIA] = 0

\* the accounts pay_market_fees may pay on a sale by seller: the committee for
\* the network, and the seller's referrer and registrar
FeePayees(seller) ==
    {GRAPHENE_COMMITTEE_ACCOUNT} \cup
    (IF seller = "null" THEN {}
     ELSE {IF accounts[seller].registrar = GRAPHENE_TEMP_ACCOUNT
           THEN GRAPHENE_COMMITTEE_ACCOUNT ELSE accounts[seller].registrar,
           IF accounts[seller].referrer = GRAPHENE_TEMP_ACCOUNT
           THEN GRAPHENE_COMMITTEE_ACCOUNT ELSE accounts[seller].referrer})

\* C6: the fee pay_market_fees returns lies between 0 and the amount received,
\* and is exactly what the call added to the vesting balances of the network,
\* the referrer and the registrar plus what it added to the asset's
\* accumulated_fees; nothing else changes.
C6_FeeRouting ==
    [][(last_op'.op = "pay_market_fees" /\ last_op'.ok) =>
        LET a == last_op'.args
            F == pay_market_fees(DB, a.seller, MIA, Asset(a.receives, MIA),
                                 a.is_maker).ret
        IN  /\ 0 <= F /\ F <= a.receives
            /\ F = Sum([acc \in Accounts |-> vesting'[acc][MIA] - vesting[acc][MIA]],
                       FeePayees(a.seller))
                   + dynamic_data'[MIA].accumulated_fees
                   - dynamic_data[MIA].accumulated_fees
            /\ \A acc \in Accounts :
                  /\ acc \notin FeePayees(a.seller) => vesting'[acc] = vesting[acc]
                  /\ vesting'[acc][MIA] >= vesting[acc][MIA]
                  /\ vesting'[acc][CORE] = vesting[acc][CORE]
            /\ dynamic_data'[MIA].accumulated_fees >= dynamic_data[MIA].accumulated_fees
            /\ dynamic_data' = [dynamic_data EXCEPT ![MIA].accumulated_fees =
                                   dynamic_data'[MIA].accumulated_fees]
            /\ UNCHANGED <<balance, statistics, bitasset_data, limit_orders,
                           call_orders, settle_orders>>]_vars

\* one fee reached the network, the referrer, the registrar and the asset
C6_Witness ==
    /\ last_op.op = "pay_market_fees" /\ last_op.ok /\ op_count = 1
    /\ accounts["bob"].referrer = "issuer"
    /\ vesting[GRAPHENE_COMMITTEE_ACCOUNT][MIA] > 0
    /\ vesting["issuer"][MIA] > 0
    /\ vesting["alice"][MIA] > 0
    /\ dynamic_data[MIA].accumulated_fees > 0

\* the indices of the fills of call orders among the virtual operations vops,
\* as maker or as taker
CallFills(vops, is_maker) ==
    {i \in DOMAIN vops : /\ vops[i].type = "fill_order"
                         /\ vops[i].order_type = "call"
                         /\ vops[i].is_maker = is_maker}

\* the step settles asset m globally
GloballySettles(m) ==
    ~has_settlement(bitasset_data[m]) /\ has_settlement(bitasset_data'[m])

\* C7: a global settlement closes every call order of the asset, each paying
\* the lesser of its collateral and its debt at the settlement price rounded
\* up; the settlement fund is the sum of these payments, the supply is what it
\* was when the settlement began, and the settlement price is that supply over
\* the fund.
C7_GlobalSettlement ==
    [][\A m \in DOMAIN bitasset_data : GloballySettles(m) =>
        LET v == last_op'.vops
            backing == bitasset_data[m].options.short_backing_asset
            \* the calls closed by the settlement are filled as makers, the
            \* margin calls executed before it in the same operation as takers
            closed == {i \in CallFills(v, TRUE) : v[i].receives.asset_id = m}
            called == {i \in CallFills(v, FALSE) : v[i].receives.asset_id = m}
            called_of(id) == {i \in called : v[i].id = id}
            debt_then(id) ==
                call_orders[id].debt
                - Sum([i \in DOMAIN v |-> v[i].receives.amount], called_of(id))
            collateral_then(id) ==
                call_orders[id].collateral
                - Sum([i \in DOMAIN v |-> v[i].pays.amount], called_of(id))
            supply_then ==
                dynamic_data[m].current_supply
                - Sum([i \in DOMAIN v |-> v[i].receives.amount], called)
            fund == Sum([i \in DOMAIN v |-> v[i].pays.amount], closed)
        IN  /\ CallsOf(call_orders', backing, m) = {}
            /\ \A id \in CallsOf(call_orders, backing, m) :
                  debt_then(id) > 0 => \E i \in closed : v[i].id = id
            /\ \A i \in closed :
                  /\ v[i].id \in CallsOf(call_orders, backing, m)
                  /\ v[i].receives.amount = debt_then(v[i].id)
                  /\ v[i].pays.amount =
                        Min(collateral_then(v[i].id),
                            MulUp(Asset(debt_then(v[i].id), m), v[i].fill_price).amount)
                  /\ \A j \in closed : v[j].fill_price = v[i].fill_price
                  /\ last_op'.op = "asset_global_settle" =>
                        v[i].fill_price = last_op'.args.settle_price
            /\ bitasset_data'[m].settlement_fund = fund
            /\ dynamic_data'[m].current_supply = supply_then
            /\ bitasset_data'[m].settlement_price =
                  Price(Asset(supply_then, m), Asset(fund, backing))]_vars

\* a global settlement has closed two call orders
C7_Witness ==
    /\ has_settlement(bitasset_data[MIA])
    /\ last_op.ok
    /\ last_op.op \in {"asset_global_settle", "asset_publish_feed"}
    /\ Cardinality(CallFills(last_op.vops, TRUE)) = 2
    /\ bitasset_data[MIA].settlement_fund =
          Sum([i \in DOMAIN last_op.vops |-> last_op.vops[i].pays.amount],
              CallFills(last_op.vops, TRUE))

\* while asset m is globally settled, globally_settle_asset, asset_global_settle
\* and asset_update_bitasset are all rejected
SettledRejects(m) ==
    has_settlement(bitasset_data[m]) =>
        /\ \A p \in SettlePrices \cup {bitasset_data[m].current_feed.settlement_price} :
              /\ globally_settle_asset(DB, m, p).err
              /\ asset_global_settle(DB, asset_options[m].issuer, m, p).err
        /\ \A mcfr \in McfrOptions :
              asset_update_bitasset(
                  DB, asset_options[m].issuer, m,
                  [bitasset_data[m].options EXCEPT !.margin_call_fee_ratio = mcfr]).err

\* C8: a globally settled asset cannot be settled again nor have its bitasset
\* options updated; it stays settled at the same settlement price until it is
\* revived.
C8_NoSecondSettlement ==
    [][\A m \in DOMAIN bitasset_data :
          /\ SettledRejects(m)
          /\ SettledRejects(m)'
          /\ (has_settlement(bitasset_data[m]) /\ has_settlement(bitasset_data'[m])) =>
                /\ bitasset_data'[m].settlement_price = bitasset_data[m].settlement_price
                /\ CallFills(last_op'.vops, TRUE) = {}]_vars

\* a second asset_global_settle was tried on the settled asset, and rejected
C8_Witness ==
    /\ has_settlement(bitasset_data[MIA])
    /\ last_op.op = "asset_global_settle"
    /\ ~last_op.ok

\* C9: when the sanity check of check_call_orders finds that the weakest call
\* order cannot pay its margin call, the operation throws and settles nothing
\* if enable_black_swan is false, and otherwise goes through with the asset
\* globally settled at the feed's settlement price.
C9_SanityBlackSwan ==
    \A k \in DOMAIN last_op.log :
        LET e == last_op.log[k]
            bitasset == bitasset_data[e.asset]
            closed == CallFills(last_op.vops, TRUE)
        IN  IF e.enable_black_swan
            THEN /\ last_op.ok
                 /\ has_settlement(bitasset)
                 /\ closed /= {}
                 /\ \A i \in closed :
                       last_op.vops[i].fill_price = bitasset.current_feed.settlement_price
            ELSE /\ ~last_op.ok
                 /\ ~has_settlement(bitasset)
                 /\ last_op.vops = <<>>

\* a feed was published that the weakest call order cannot pay the margin call
\* of, and the asset was settled at the feed's price
C9_Witness ==
    /\ last_op.op = "asset_publish_feed"
    /\ has_settlement(bitasset_data[MIA])
    /\ \E k \in DOMAIN last_op.log : last_op.log[k].enable_black_swan
    /\ CallFills(last_op.vops, TRUE) /= {}

\* the step is an asset_claim_fees of more than the bucket it claims from holds
ClaimExceedsBucket ==
    /\ last_op'.op = "asset_claim_fees"
    /\ LET c == last_op'.args.amount_to_claim
       IN  \/ c.asset_id = MIA /\ c.amount > dynamic_data[MIA].accumulated_fees
           \/ c.asset_id = CORE
              /\ c.amount > dynamic_data[MIA].accumulated_collateral_fees

Culls == {last_op.vops[i] : i \in {j \in 1..Len(last_op.vops) :
                                        last_op.vops[j].type = "limit_order_cancel"}}

\* C11: no limit order on the book would receive nothing for what it sells:
\* an order whose for_sale * sell_price rounds down to zero has been cancelled
\* by the operation that left it so.
C11_NoDustOnBook ==
    \A i \in DOMAIN limit_orders : amount_to_receive(limit_orders[i]).amount > 0

\* a new order was filled in part, what was left of it would have bought
\* nothing, and apply_order culled it
C11_Witness ==
    /\ last_op.op = "limit_order_create" /\ last_op.ok
    /\ \E c \in Culls : c.id = next_id - 1
    /\ \E f \in Fills : f.id = next_id - 1 /\ f.order_type = "limit"
    /\ (next_id - 1) \notin DOMAIN limit_orders

\* bob's order would be filled as a whole by the match and would receive
\* nothing for it: match( limit, limit ) against alice's order at her price,
\* match( limit, call ) against her call order, which would buy more than bob's
\* order sells, at the margin call order price
TakerReceivesNothing ==
    LET taker == limit_orders[TakerId]
        feed == bitasset_data[MIA].current_feed
        call_match_price == Inv(margin_call_order_price(feed, mcfr_of(bitasset_data[MIA])))
    IN  \/ /\ last_op'.op = "match_limit_limit"
           /\ MulDown(amount_for_sale(taker), limit_orders[last_op'.args.maker].sell_price).amount = 0
        \/ /\ last_op'.op = "match_limit_call"
           /\ get_max_debt_to_cover(call_orders[last_op'.args.call],
                                    Inv(max_short_squeeze_price(feed)),
                                    feed.settlement_price,
                                    feed.maintenance_collateral_ratio,
                                    bitasset_data[MIA].current_maintenance_collateralization)
                  > taker.for_sale
           /\ MulDown(amount_for_sale(taker), call_match_price).amount = 0

\* C12: when the order a match would fill as a whole would receive nothing,
\* match( limit, limit ) and match( limit, call ) return 1 (that order is
\* filled) without a fill: no balance, order, debt or collateral changes and no
\* fill_order is emitted, and the order is one maybe_cull_small_order cancels.
C12_ZeroReceiveNoFill ==
    [][TakerReceivesNothing =>
          /\ last_op'.ok
          /\ last_op'.ret = 1
          /\ last_op'.vops = <<>>
          /\ UNCHANGED dbvars
          /\ maybe_cull_small_order(DB', TakerId).ret = TRUE
          /\ TakerId \notin DOMAIN maybe_cull_small_order(DB', TakerId).lim]_vars

\* match( limit, limit ) has returned 1 for what was left of bob's order,
\* alice's order being untouched
C12_Witness ==
    /\ last_op.op = "match_limit_limit" /\ last_op.ok
    /\ last_op.ret = 1
    /\ last_op.vops = <<>>
    /\ amount_to_receive(limit_orders[TakerId]).amount = 0
    /\ limit_orders[MakerId].for_sale = limit_orders[MakerId].sell_price.base.amount

\* what limit order id had for sale before the operation: an order on the book
\* its for_sale, the order limit_order_create is creating its amount_to_sell
ForSaleBefore(id) ==
    IF id \in DOMAIN limit_orders THEN limit_orders[id].for_sale
    ELSE last_op'.args.amount_to_sell.amount

\* the positions in the operation's virtual operations of the fills of limit
\* order id
LimitFillsOf(vops, id) ==
    {i \in 1..Len(vops) : /\ vops[i].type = "fill_order"
                          /\ vops[i].order_type = "limit"
                          /\ vops[i].id = id}

\* C13: a limit order that one fill fills completely (the fill pays all the
\* order had for sale) gets exactly one fill_order virtual operation, and its
\* object is gone from the book.
C13_CompleteFill ==
    [][\A id \in DOMAIN limit_orders
                   \cup (IF last_op'.op = "limit_order_create" /\ last_op'.ok
                         THEN {next_id} ELSE {}) :
          (\E i \in LimitFillsOf(last_op'.vops, id) :
                last_op'.vops[i].pays.amount = ForSaleBefore(id))
          => /\ Cardinality(LimitFillsOf(last_op'.vops, id)) = 1
             /\ id \notin DOMAIN limit_orders']_vars

\* a new order was filled completely by one fill against an order of the book,
\* which got one fill as well, and both are gone
C13_Witness ==
    /\ last_op.op = "limit_order_create" /\ last_op.ok
    /\ \E i, j \in 1..Len(last_op.vops) :
          /\ last_op.vops[i].type = "fill_order" /\ last_op.vops[i].order_type = "limit"
          /\ last_op.vops[j].type = "fill_order" /\ last_op.vops[j].order_type = "limit"
          /\ last_op.vops[i].id = next_id - 1
          /\ last_op.vops[i].pays = last_op.args.amount_to_sell
          /\ last_op.vops[j].id < next_id - 1
          /\ last_op.vops[j].is_maker
          /\ {last_op.vops[i].id, last_op.vops[j].id} \cap DOMAIN limit_orders = {}
          /\ Cardinality(LimitFillsOf(last_op.vops, last_op.vops[j].id)) = 1

\* the ways an order is cancelled: by its owner's limit_order_cancel (no
\* virtual operation), and by the engine with and without a cancel fee
Cancels == {<<FALSE, FALSE>>, <<TRUE, FALSE>>, <<TRUE, TRUE>>}

ChecksCallOrders ==
    last_op'.op = "check_call_orders" /\ last_op'.ok

MarginCallExample(mcfr) ==
    /\ bitasset_data[MIA].current_feed = Feed(P(1, 10), 1750, 1100)
    /\ bitasset_data[MIA].options.margin_call_fee_ratio = mcfr
    /\ CallId \in DOMAIN call_orders
    /\ call_orders[CallId].debt = 100 /\ call_orders[CallId].collateral = 1700
    /\ DOMAIN limit_orders = {TakerId}
    /\ limit_orders[TakerId].for_sale = 50
    /\ limit_orders[TakerId].sell_price = Price(Asset(50, MIA), Asset(525, CORE))
    /\ last_op'.op \in {"apply_order", "check_call_orders"}

\* the step fills the call order and the limit order once each: the call order
\* pays `paid` CORE for 50 MIA, the limit order receives `received` CORE, and
\* `fee` CORE are added to the collateral fees of MIA
MarginCallOutcome(paid, received, fee) ==
    /\ last_op'.ok
    /\ Len(last_op'.vops) = 2
    /\ \E i \in DOMAIN last_op'.vops :
          /\ last_op'.vops[i].type = "fill_order" /\ last_op'.vops[i].order_type = "call"
          /\ last_op'.vops[i].pays = Asset(paid, CORE)
          /\ last_op'.vops[i].receives = Asset(50, MIA)
    /\ \E i \in LimitFillsOf(last_op'.vops, TakerId) :
          /\ last_op'.vops[i].pays = Asset(50, MIA)
          /\ last_op'.vops[i].receives = Asset(received, CORE)
    /\ call_orders'[CallId].collateral = 1700 - paid
    /\ call_orders'[CallId].debt = 50
    /\ TakerId \notin DOMAIN limit_orders'
    /\ dynamic_data'[MIA].accumulated_collateral_fees
           = dynamic_data[MIA].accumulated_collateral_fees + fee

\* C16 as stated: with a margin call fee ratio of 0 the call order pays 550
\* CORE, the limit order receives 525 CORE, and 25 CORE go to the collateral
\* fees of MIA.
C16_FeeAtRatioZero ==
    [][MarginCallExample(Some(0)) => MarginCallOutcome(550, 525, 25)]_vars

\* C16: in the margin call example the call order pays 550 CORE, the limit
\* order receives 525 CORE and 25 CORE go to the collateral fees of MIA when
\* the margin call fee ratio is 0.05 (50 of 1000).  With a ratio of 0, or none,
\* there is no margin call fee: a new limit order is matched at the short
\* squeeze price 11 (call pays 550, order receives 550), a resting limit order
\* at its own price 10.5 (call pays 525, order receives 525).
C16_MarginCallExample ==
    [][/\ MarginCallExample(Some(50)) => MarginCallOutcome(550, 525, 25)
       /\ \A mcfr \in {None, Some(0)} :
             MarginCallExample(mcfr)
             => IF last_op'.op = "apply_order"
                THEN MarginCallOutcome(550, 550, 0)
                ELSE MarginCallOutcome(525, 525, 0)]_vars

\* the example has been matched under a margin call fee ratio of 0.05: the call
\* order has paid 550 CORE for 50 MIA, of which 25 CORE are collateral fees
C16_Witness ==
    /\ last_op.op \in {"apply_order", "check_call_orders"} /\ last_op.ok
    /\ op_count = 1
    /\ bitasset_data[MIA].current_feed = Feed(P(1, 10), 1750, 1100)
    /\ bitasset_data[MIA].options.margin_call_fee_ratio = Some(50)
    /\ CallId \in DOMAIN call_orders
    /\ call_orders[CallId].debt = 50 /\ call_orders[CallId].collateral = 1150
    /\ limit_orders = <<>>
    /\ dynamic_data[MIA].accumulated_collateral_fees = 25

\* C17: a globally settled asset is revived only if it has a settlement, is no
\* prediction market, has a valid feed, and either has no supply left or has a
\* settlement fund whose collateralization of the supply exceeds the
\* maintenance collateralization of the feed; the revival nulls the settlement
\* price and zeroes the settlement fund.  revive_bitasset called in any state
\* throws unless the asset has a settlement, is no prediction market and has a
\* valid feed.
C17_Revival ==
    [][/\ \A m \in DOMAIN bitasset_data :
             (has_settlement(bitasset_data[m]) /\ ~has_settlement(bitasset_data'[m]))
             => /\ ~bitasset_data[m].is_prediction_market
                /\ ~is_null(bitasset_data'[m].current_feed.settlement_price)
                /\ \/ dynamic_data[m].current_supply = 0
                   \/ PriceGT(Price(Asset(bitasset_data[m].settlement_fund,
                                          bitasset_data[m].options.short_backing_asset),
                                    Asset(dynamic_data[m].current_supply, m)),
                              bitasset_data'[m].current_maintenance_collateralization)
                /\ is_null(bitasset_data'[m].settlement_price)
                /\ bitasset_data'[m].settlement_fund = 0
       /\ \A m \in DOMAIN bitasset_data :
             LET revived == revive_bitasset(DB, m)
             IN  ~revived.err
                 => /\ has_settlement(bitasset_data[m])
                    /\ ~bitasset_data[m].is_prediction_market
                    /\ ~is_null(bitasset_data[m].current_feed.settlement_price)
                    /\ is_null(revived.bit[m].settlement_price)
                    /\ revived.bit[m].settlement_fund = 0]_vars

\* a feed was published for the globally settled asset, whose fund more than
\* covered the supply still out, and revived it
C17_Witness ==
    /\ last_op.op = "asset_publish_feed" /\ last_op.ok
    /\ ~has_settlement(bitasset_data[MIA])
    /\ bitasset_data[MIA].settlement_fund = 0
    /\ dynamic_data[MIA].current_supply > 0
    /\ call_orders = <<>>
    /\ op_count >= 3

\* the step is an asset_settle of a globally settled MIA; rounded is what the
\* amount is worth at the settlement price, rounded down
SettlesFromFund ==
    last_op'.op = "asset_settle" /\ has_settlement(bitasset_data[MIA])

RoundedSettlement ==
    MulDown(Asset(last_op'.args.amount, MIA), bitasset_data[MIA].settlement_price).amount

\* the step takes `settled` CORE from the fund to the settler and burns
\* `burned` MIA of the settler's
SettlesFor(settled, burned) ==
    LET account == last_op'.args.account
    IN  /\ last_op'.ok
        /\ bitasset_data'[MIA].settlement_fund = bitasset_data[MIA].settlement_fund - settled
        /\ dynamic_data'[MIA].current_supply = dynamic_data[MIA].current_supply - burned
        /\ balance'[account][CORE] = balance[account][CORE] + settled
        /\ balance'[account][MIA] = balance[account][MIA] - burned

\* C18 as stated: an asset_settle of a globally settled asset fails whenever
\* the amount times the settlement price rounds down to zero; one of the whole
\* supply pays the whole fund and leaves supply and fund at 0; any other takes
\* the rounded amount from the fund and burns what that amount is worth.
C18_FailsWheneverRoundedZero ==
    [][SettlesFromFund =>
          /\ RoundedSettlement = 0 => ~last_op'.ok
          /\ last_op'.ok =>
                IF last_op'.args.amount = dynamic_data[MIA].current_supply
                THEN /\ SettlesFor(bitasset_data[MIA].settlement_fund,
                                   dynamic_data[MIA].current_supply)
                     /\ dynamic_data'[MIA].current_supply = 0
                     /\ bitasset_data'[MIA].settlement_fund = 0
                ELSE SettlesFor(RoundedSettlement,
                                MulUp(Asset(RoundedSettlement, CORE),
                                      bitasset_data[MIA].settlement_price).amount)]_vars

\* C18: an asset_settle of a globally settled asset that is no prediction
\* market fails when what it would pay is zero: for less than the whole supply
\* the amount times the settlement price rounded down, for the whole supply
\* the fund.  One of the whole supply pays the whole fund, also when the amount
\* times the settlement price rounds down to zero, and leaves supply and fund
\* at 0; any other takes exactly the rounded amount from the fund and burns
\* exactly what that amount is worth, rounded up.
C18_SettleFromFund ==
    [][SettlesFromFund =>
          LET whole == last_op'.args.amount = dynamic_data[MIA].current_supply
              fund == bitasset_data[MIA].settlement_fund
              holds == balance[last_op'.args.account][MIA] >= last_op'.args.amount
          IN  /\ (IF whole THEN fund = 0 ELSE RoundedSettlement = 0) => ~last_op'.ok
              /\ (whole /\ fund > 0 /\ holds) => last_op'.ok
              /\ last_op'.ok =>
                    IF whole
                    THEN /\ SettlesFor(fund, dynamic_data[MIA].current_supply)
                         /\ dynamic_data'[MIA].current_supply = 0
                         /\ bitasset_data'[MIA].settlement_fund = 0
                    ELSE SettlesFor(RoundedSettlement,
                                    MulUp(Asset(RoundedSettlement, CORE),
                                          bitasset_data[MIA].settlement_price).amount)]_vars

\* alice has settled the last MIA, worth less than one CORE at the settlement
\* price, and was paid the CORE left in the fund
C18_Witness ==
    /\ last_op.op = "asset_settle" /\ last_op.ok
    /\ last_op.args.amount = 1
    /\ MulDown(Asset(1, MIA), bitasset_data[MIA].settlement_price).amount = 0
    /\ dynamic_data[MIA].current_supply = 0
    /\ bitasset_data[MIA].settlement_fund = 0
    /\ balance["alice"][CORE] > InitBalance

\* C19: asset_claim_fees takes the claimed amount out of exactly one bucket of
\* the container asset, accumulated_fees when the claimed asset is the
\* container itself and accumulated_collateral_fees otherwise, and credits it
\* to the issuer; nothing else changes.  A claim of more than the bucket
\* holds, of zero or of a negative amount is rejected and changes nothing.
C19_ClaimFees ==
    [][/\ last_op'.op = "asset_claim_fees" =>
             LET claim == last_op'.args.amount_to_claim
                 own == claim.asset_id = MIA
                 ddo == dynamic_data[MIA]
                 bucket == IF own THEN ddo.accumulated_fees
                           ELSE ddo.accumulated_collateral_fees
             IN  /\ last_op'.ok <=> (claim.amount > 0 /\ claim.amount <= bucket)
                 /\ ~last_op'.ok => UNCHANGED dbvars
                 /\ last_op'.ok =>
                       /\ dynamic_data' = [dynamic_data EXCEPT ![MIA] =
                              IF own
                              THEN [ddo EXCEPT !.accumulated_fees = @ - claim.amount]
                              ELSE [ddo EXCEPT !.accumulated_collateral_fees =
                                                   @ - claim.amount]]
                       /\ balance' = [balance EXCEPT !["issuer"][claim.asset_id] =
                                                         @ + claim.amount]
                       /\ UNCHANGED <<vesting, statistics, bitasset_data, limit_orders,
                                      call_orders, settle_orders, next_id>>
       /\ \A a \in Assets, amount \in {-2, -1, 0} :
             asset_claim_fees(DB, "issuer", Asset(amount, a), Some(MIA)).err
       /\ \A amount \in ClaimAmounts :
             asset_claim_fees(DB, "issuer", Asset(amount, MIA), None)
                 = asset_claim_fees(DB, "issuer", Asset(amount, MIA), Some(MIA))]_vars

\* the issuer has claimed margin call fees, held in the backing asset, and
\* some are left in the bucket
C19_Witness ==
    /\ last_op.op = "asset_claim_fees" /\ last_op.ok
    /\ last_op.args.amount_to_claim.asset_id = CORE
    /\ balance["issuer"][CORE] = last_op.args.amount_to_claim.amount
    /\ dynamic_data[MIA].accumulated_collateral_fees > 0

\* C20: an asset_update_bitasset that names another short_backing_asset is
\* rejected, the database untouched, whenever MIA's current_supply or its
\* accumulated_collateral_fees is not zero, and is accepted, the backing asset
\* replaced, when both are zero; so the backing asset never changes while
\* collateral fees are held, which stay in the backing asset they came in
ChangesBackingAsset ==
    /\ op_count' = op_count + 1
    /\ last_op'.op = "asset_update_bitasset"
    /\ last_op'.args.short_backing_asset
           /= bitasset_data[MIA].options.short_backing_asset

C20_BackingChange ==
    [][/\ ChangesBackingAsset =>
             IF \/ dynamic_data[MIA].current_supply /= 0
                \/ dynamic_data[MIA].accumulated_collateral_fees /= 0
             THEN ~last_op'.ok /\ UNCHANGED dbvars
             ELSE /\ last_op'.ok
                  /\ bitasset_data'[MIA].options.short_backing_asset
                        = last_op'.args.short_backing_asset
       /\ bitasset_data'[MIA].options.short_backing_asset
              /= bitasset_data[MIA].options.short_backing_asset =>
             /\ dynamic_data[MIA].accumulated_collateral_fees = 0
             /\ dynamic_data'[MIA].accumulated_collateral_fees = 0]_vars

\* the collateral fees were claimed in full and ICOIN then became the backing
\* asset
C20_Witness ==
    /\ last_op.op = "asset_update_bitasset"
    /\ last_op.ok
    /\ bitasset_data[MIA].options.short_backing_asset = ICOIN
    /\ balance["issuer"][CORE] > 0
    /\ dynamic_data[MIA].accumulated_collateral_fees = 0

\* C21: whatever updates of the backing asset were accepted, no market-issued
\* asset is backed by itself, none is backed by a market-issued asset that is
\* itself backed by a market-issued asset, and a prediction market has the
\* precision of its backing asset; an update that would have broken one of
\* these has been rejected
BackingOf(a) == bitasset_data[a].options.short_backing_asset

C21_BackingChains ==
    \A a \in DOMAIN bitasset_data :
        /\ BackingOf(a) /= a
        /\ ~(is_market_issued(BackingOf(a)) /\ is_market_issued(BackingOf(BackingOf(a))))
        /\ bitasset_data[a].is_prediction_market =>
              asset_options[a].precision = asset_options[BackingOf(a)].precision

\* PARENT backs CHILD, and its update to be backed by USDBIT, which would
\* have made the chain CHILD, PARENT, USDBIT, was rejected
C21_Witness ==
    /\ last_op.op = "asset_update_bitasset"
    /\ ~last_op.ok
    /\ last_op.args.asset_to_update = "PARENT"
    /\ last_op.args.short_backing_asset = "USDBIT"
    /\ BackingOf("CHILD") = "PARENT"
    /\ BackingOf("USDBIT") = CORE
    /\ op_count > 1

\* C22: at the first fill of an order as maker whose creation fee was paid in
\* core, the seller's balance is refunded calculate_percent(deferred_fee,
\* maker_fee_discount_percent) and the rest of the deferred fee goes to the
\* seller's statistics through pay_fee, the two adding up to the deferred fee;
\* of 100 core at a discount of 2000 the refund is 20 and 80 go to the
\* statistics
FillsAsMaker ==
    /\ op_count' = op_count + 1
    /\ last_op'.op = "match"
    /\ last_op'.ok
    /\ last_op'.args.is_maker

C22_MakerDiscount ==
    [][FillsAsMaker /\ limit_orders[1].deferred_paid_fee.amount = 0 =>
         LET deferred_fee == limit_orders[1].deferred_fee
             discount == global_params.maker_fee_discount_percent
             refund == balance'["alice"][CORE] - balance["alice"][CORE]
             to_statistics == statistics'["alice"].pending_fees
                                 - statistics["alice"].pending_fees
         IN  /\ refund = (deferred_fee * discount) \div GRAPHENE_100_PERCENT
             /\ refund + to_statistics = deferred_fee
             /\ deferred_fee = 100 /\ discount = 2000 =>
                   refund = 20 /\ to_statistics = 80]_vars

\* order 1, with 100 core deferred, has been filled as maker at a discount of
\* 2000
C22_Witness ==
    /\ last_op.op = "match"
    /\ last_op.ok
    /\ last_op.args.is_maker
    /\ op_count = 1
    /\ global_params.maker_fee_discount_percent = 2000
    /\ balance["alice"][CORE] = InitBalance + 20
    /\ statistics["alice"].pending_fees = 80

\* C23: a cancellation with a virtual operation and a cancel fee, of an order
\* whose deferred fee was paid in MIA, charges the cancel fee (at most the
\* deferred fee) to the seller's statistics, adds the fee's share of the paid
\* fee, rounded up, to MIA's accumulated_fees, refunds the rest of the paid
\* fee to the seller and returns the rest of the deferred fee to MIA's fee
\* pool, and the virtual operation carries the share deducted; with 100 core
\* deferred, 50 MIA paid and a cancel fee of 30 these are 15, 35 and 70
CancelsCharged ==
    /\ op_count' = op_count + 1
    /\ last_op'.op = "cancel_limit_order"
    /\ last_op'.ok
    /\ last_op'.args.create_virtual_op
    /\ ~last_op'.args.skip_cancel_fee
    /\ global_params.cancel_fee > 0
    /\ limit_orders[1].deferred_fee > 0
    /\ limit_orders[1].deferred_paid_fee.amount > 0

C23_CancelPaidFee ==
    [][CancelsCharged =>
         LET deferred_fee == limit_orders[1].deferred_fee
             paid_fee == limit_orders[1].deferred_paid_fee.amount
             cancel_core == IF global_params.cancel_fee > deferred_fee THEN deferred_fee
                            ELSE global_params.cancel_fee
             deducted == dynamic_data'[MIA].accumulated_fees
                            - dynamic_data[MIA].accumulated_fees
             refunded == balance'["alice"][MIA] - balance["alice"][MIA]
             returned == dynamic_data'[MIA].fee_pool - dynamic_data[MIA].fee_pool
             vop == last_op'.vops[Len(last_op'.vops)]
         IN  /\ deducted * deferred_fee >= paid_fee * cancel_core
             /\ (deducted - 1) * deferred_fee < paid_fee * cancel_core
             /\ deducted + refunded = paid_fee
             /\ cancel_core + returned = deferred_fee
             /\ statistics'["alice"].pending_fees
                   = statistics["alice"].pending_fees + cancel_core
             /\ vop.type = "limit_order_cancel"
             /\ vop.fee = Asset(deducted, MIA)
             /\ deferred_fee = 100 /\ paid_fee = 50 /\ global_params.cancel_fee = 30 =>
                   deducted = 15 /\ refunded = 35 /\ returned = 70]_vars

\* order 1, with 100 core deferred and 50 MIA paid, has been cancelled at a
\* cancel fee of 30
C23_Witness ==
    /\ last_op.op = "cancel_limit_order"
    /\ last_op.ok
    /\ last_op.args.create_virtual_op
    /\ global_params.cancel_fee = 30
    /\ dynamic_data[MIA].accumulated_fees = 15
    /\ balance["alice"][MIA] = 35
    /\ dynamic_data[MIA].fee_pool = 70
    /\ last_op.vops[Len(last_op.vops)].fee = Asset(15, MIA)

\* C24: apply_order returns false at once, with nothing matched, exactly when
\* an order of the new order's side is sorted before it in by_price: one with
\* a better price, or one with an equal price and a lower id; otherwise
\* matching is attempted, and no order within the new order's range is left
SameSide == SideOf(limit_orders, sell_asset_id(limit_orders[TakerId]),
                   receive_asset_id(limit_orders[TakerId])) \ {TakerId}

BetterPriced ==
    \E i \in SameSide : PriceGT(limit_orders[i].sell_price, limit_orders[TakerId].sell_price)

EqualPricedEarlier ==
    \E i \in SameSide :
        /\ PriceEQ(limit_orders[i].sell_price, limit_orders[TakerId].sell_price)
        /\ i < TakerId

OrderApplied ==
    /\ last_op.op = "apply_order"
    /\ last_op.ok
    /\ TakerId \in DOMAIN limit_orders

NothingMatched == last_op.ret = FALSE /\ last_op.vops = <<>>

NothingLeftInRange ==
    \A i \in DOMAIN limit_orders : ~InRange(limit_orders[TakerId], limit_orders[i])

\* C24 as claimed: the early return is taken exactly when an order of the
\* same side has a strictly better price
C24_OnlyStrictlyBetter ==
    /\ TakerId \in DOMAIN limit_orders =>
          (~at_front_of_book(limit_orders, TakerId) <=> BetterPriced)
    /\ OrderApplied /\ BetterPriced => NothingMatched
    /\ OrderApplied /\ ~BetterPriced => NothingLeftInRange

C24_FrontOfBook ==
    /\ TakerId \in DOMAIN limit_orders =>
          (~at_front_of_book(limit_orders, TakerId)
              <=> (BetterPriced \/ EqualPricedEarlier))
    /\ OrderApplied /\ (BetterPriced \/ EqualPricedEarlier) => NothingMatched
    /\ OrderApplied /\ ~(BetterPriced \/ EqualPricedEarlier) => NothingLeftInRange

\* apply_order has returned false on bob's order of 3 MIA for 3 CORE, which
\* alice's older order of 4 MIA for 4 CORE precedes at the same price
C24_Witness ==
    /\ OrderApplied
    /\ NothingMatched
    /\ EqualPricedEarlier
    /\ ~BetterPriced

\* C25: apply_order leaves every call order as it is, and fills none, unless
\* the asset sold is market-issued, the asset received is its backing asset,
\* it is no prediction market, it has no settlement, its feed is valid, and
\* the price the new order accepts is no higher than call_match_price
AppliesOrder ==
    /\ op_count' = op_count + 1
    /\ last_op'.op = "apply_order"

CallsInPlay ==
    LET new_order == limit_orders[TakerId]
        sell_asset == sell_asset_id(new_order)
    IN  /\ is_market_issued(sell_asset)
        /\ bitasset_data[sell_asset].options.short_backing_asset
              = receive_asset_id(new_order)
        /\ ~bitasset_data[sell_asset].is_prediction_market
        /\ ~has_settlement(bitasset_data[sell_asset])
        /\ ~is_null(bitasset_data[sell_asset].current_feed.settlement_price)
        /\ PriceLE(Inv(new_order.sell_price),
                   Inv(margin_call_order_price(bitasset_data[sell_asset].current_feed,
                                               mcfr_of(bitasset_data[sell_asset]))))

CallFilled(vops) ==
    \E k \in DOMAIN vops : vops[k].type = "fill_order" /\ vops[k].order_type = "call"

C25_CallsInPlay ==
    [][AppliesOrder /\ ~CallsInPlay =>
          call_orders' = call_orders /\ ~CallFilled(last_op'.vops)]_vars

\* apply_order has left bob's order of 4 MIA for 2 CORE on the book of a
\* prediction market whose call order is below the maintenance ratio
C25_Witness ==
    /\ last_op.op = "apply_order"
    /\ last_op.ok
    /\ bitasset_data[MIA].is_prediction_market
    /\ TakerId \in DOMAIN limit_orders
    /\ limit_orders[TakerId].sell_price = Price(Asset(4, MIA), Asset(2, CORE))
    /\ CallId \in DOMAIN call_orders
    /\ ~PriceGT(collateralization(call_orders[CallId]),
                bitasset_data[MIA].current_maintenance_collateralization)

\* ------------------------------------------- the order of the fills
\* the positions of the fills of call orders, and of the limit orders other
\* than the new one, in the virtual operations of a step
FillsOfCalls(vops) ==
    {k \in DOMAIN vops : vops[k].type = "fill_order" /\ vops[k].order_type = "call"}

MakerFills(vops) ==
    {k \in DOMAIN vops : /\ vops[k].type = "fill_order"
                         /\ vops[k].order_type = "limit"
                         /\ vops[k].id /= TakerId}

\* the limit orders the new order can match that are priced strictly better
\* than call_match_price
BetterThanCalls ==
    {m \in DOMAIN limit_orders :
        /\ InRange(limit_orders[TakerId], limit_orders[m])
        /\ PriceGT(limit_orders[m].sell_price,
                   Inv(margin_call_order_price(bitasset_data[MIA].current_feed,
                                               mcfr_of(bitasset_data[MIA]))))}

\* C26: in one apply_order with the call orders in play, the limit orders
\* priced strictly better than call_match_price are filled before any call
\* order and none of them is left once a call order is filled; the call
\* orders are filled from the least collateralized on, each one only at or
\* below the maintenance collateralization and with its debt in the asset
\* sold; the other limit orders are filled after the call orders.
C26_FillOrder ==
    [][AppliesOrder /\ CallsInPlay /\ last_op'.ok =>
        LET vops == last_op'.vops IN
        /\ \A c \in FillsOfCalls(vops) :
              /\ vops[c].id \in DOMAIN call_orders
              /\ call_orders[vops[c].id].debt_type = sell_asset_id(limit_orders[TakerId])
              /\ ~PriceGT(collateralization(call_orders[vops[c].id]),
                          bitasset_data[MIA].current_maintenance_collateralization)
              /\ \A m \in BetterThanCalls : m \notin DOMAIN limit_orders'
              /\ \A w \in DOMAIN call_orders \ {vops[c].id} :
                    BeforeByCollateral(call_orders, w, vops[c].id) =>
                        /\ w \notin DOMAIN call_orders'
                        /\ \E k \in FillsOfCalls(vops) : k < c /\ vops[k].id = w
        /\ \A c \in FillsOfCalls(vops), m \in MakerFills(vops) :
              IF vops[m].id \in BetterThanCalls THEN m < c ELSE c < m]_vars

\* apply_order has filled alice's call order of 3 MIA first and her limit
\* order, priced below call_match_price, after it
C26_Witness ==
    /\ last_op.op = "apply_order"
    /\ last_op.ok
    /\ \E c \in FillsOfCalls(last_op.vops), m \in MakerFills(last_op.vops) :
          /\ c < m
          /\ last_op.vops[c].id = CallId
          /\ last_op.vops[c].receives = Asset(3, MIA)
          /\ last_op.vops[m].id = MakerId
    /\ CallId \notin DOMAIN call_orders

\* --------------------------------------------------- price-time priority
\* the resting orders of the side of order m that by_price sorts before m: a
\* strictly better price, or an equal price and a lower id
AheadOf(m) ==
    {r \in SideOf(limit_orders, sell_asset_id(limit_orders[m]),
                  receive_asset_id(limit_orders[m])) \ {m} :
        \/ PriceGT(limit_orders[r].sell_price, limit_orders[m].sell_price)
        \/ /\ PriceEQ(limit_orders[r].sell_price, limit_orders[m].sell_price)
           /\ r < m}

\* the positions of the fills of limit orders and of call orders
LimitFills(vops) ==
    {k \in DOMAIN vops : vops[k].type = "fill_order" /\ vops[k].order_type = "limit"}

\* resting order r has been filled completely before position m and has left
\* the book
FilledBefore(vops, r, m) ==
    /\ r \notin DOMAIN limit_orders'
    /\ \E k \in LimitFills(vops) :
          /\ k < m
          /\ vops[k].id = r
          /\ vops[k].pays.amount = limit_orders[r].for_sale

\* the call orders as the fills before position c have left them
CallsBefore(vops, c) ==
    LET earlier(x) == {k \in FillsOfCalls(vops) : k < c /\ vops[k].id = x}
        debt(x) == call_orders[x].debt
                       - Sum([k \in earlier(x) |-> vops[k].receives.amount], earlier(x))
        collateral(x) == call_orders[x].collateral
                       - Sum([k \in earlier(x) |-> vops[k].pays.amount], earlier(x))
    IN  [x \in {y \in DOMAIN call_orders : debt(y) > 0} |->
            [call_orders[x] EXCEPT !.debt = debt(x), !.collateral = collateral(x)]]

\* C27: within apply_order a resting limit order is filled only after every
\* resting order of its side with a strictly better price, and every one with
\* an equal price and a lower id, has been filled completely; within
\* check_call_orders a call order is filled only when it is the least
\* collateralized call order at that moment, and against the best-priced limit
\* order that is left (the fills of a global settlement, which closes every
\* call order against the settlement fund, apart).
C27_PriceTimePriority ==
    [][/\ AppliesOrder /\ last_op'.ok =>
            \A m \in MakerFills(last_op'.vops) :
                \A r \in AheadOf(last_op'.vops[m].id) :
                    FilledBefore(last_op'.vops, r, m)
       /\ (last_op'.op = "check_call_orders" /\ last_op'.ok
              /\ ~has_settlement(bitasset_data'[MIA])) =>
            LET vops == last_op'.vops IN
            \A c \in FillsOfCalls(vops) :
                /\ vops[c].id \in DOMAIN CallsBefore(vops, c)
                /\ \A w \in DOMAIN CallsBefore(vops, c) \ {vops[c].id} :
                      BeforeByCollateral(CallsBefore(vops, c), vops[c].id, w)
                /\ c + 1 \in LimitFills(vops)
                /\ \A r \in AheadOf(vops[c + 1].id) : FilledBefore(vops, r, c)]_vars

\* apply_order has filled alice's older order at the better price, 4 CORE for
\* 2 MIA, and her order at the worse price after it
C27_Witness ==
    /\ last_op.op = "apply_order"
    /\ last_op.ok
    /\ \E k, m \in MakerFills(last_op.vops) :
          /\ k < m
          /\ last_op.vops[k].id = SecondMakerId
          /\ last_op.vops[k].pays = Asset(4, CORE)
          /\ last_op.vops[k].receives = Asset(2, MIA)
          /\ last_op.vops[m].id = MakerId

\* --------------------------------------------- the result of match( limit, limit )
\* the step is a call of match( limit, limit ) that returned
MatchesLimits ==
    /\ op_count' = op_count + 1
    /\ last_op'.op = "match_limit_limit"

TakerBit(result) == result % 2 = 1
MakerBit(result) == (result \div 2) % 2 = 1

\* the fills of the step: the taker's first, the maker's second; each side pays
\* what the other receives and no more than it had for sale
FillsOfMatch(vops, taker, maker) ==
    /\ Len(vops) >= 2
    /\ vops[1].type = "fill_order" /\ vops[1].id = taker /\ ~vops[1].is_maker
    /\ vops[2].type = "fill_order" /\ vops[2].id = maker /\ vops[2].is_maker
    /\ vops[1].pays = vops[2].receives
    /\ vops[2].pays = vops[1].receives
    /\ \A i \in {taker, maker} \cap DOMAIN limit_orders' :
          limit_orders'[i].for_sale
              = limit_orders[i].for_sale - vops[IF i = taker THEN 1 ELSE 2].pays.amount
    /\ vops[1].pays.amount <= limit_orders[taker].for_sale
    /\ vops[2].pays.amount <= limit_orders[maker].for_sale
    /\ vops[1].pays.amount > 0 /\ vops[2].pays.amount > 0

MatchesCall ==
    /\ op_count' = op_count + 1
    /\ last_op'.op = "match_limit_call"

\* the fill of the call order among the virtual operations of a match
CallFillOf(vops) == vops[CHOOSE k \in FillsOfCalls(vops) : TRUE]

\* C29: match( limit, call ) never fails its assertion; when it fills, the call
\* order pays no less than the limit order receives, the difference is the
\* margin call fee, exactly the fee is added to the collateral fees of the
\* debt asset, and neither the seller nor the borrower is credited with it:
\* the seller gets what the limit order receives less the market fee, the
\* borrower the collateral left once the call order is closed.
C29_MarginCallFee ==
    [][MatchesCall =>
        LET bid == limit_orders[last_op'.args.taker]
            call_id == last_op'.args.call
            ask == call_orders[call_id]
            vops == last_op'.vops
            closed == call_id \notin DOMAIN call_orders'
            credit(acc) ==
                (IF acc = bid.seller
                 THEN vops[1].receives.amount - vops[1].fee.amount ELSE 0)
                + (IF acc = ask.borrower /\ closed
                   THEN ask.collateral - CallFillOf(vops).pays.amount ELSE 0)
        IN  /\ last_op'.ok
            /\ vops /= <<>> =>
                  /\ vops[1].order_type = "limit" /\ FillsOfCalls(vops) /= {}
                  /\ CallFillOf(vops).pays.amount >= vops[1].receives.amount
                  /\ CallFillOf(vops).fee
                        = Asset(CallFillOf(vops).pays.amount - vops[1].receives.amount,
                                ask.collateral_type)
                  /\ dynamic_data'[MIA].accumulated_collateral_fees
                        = dynamic_data[MIA].accumulated_collateral_fees
                              + CallFillOf(vops).fee.amount
                  /\ \A acc \in Accounts :
                        balance'[acc][CORE] = balance[acc][CORE] + credit(acc)
                  /\ ~closed =>
                        call_orders'[call_id].collateral
                            = ask.collateral - CallFillOf(vops).pays.amount]_vars

\* match( limit, call ) has filled a call order that paid more than the limit
\* order received, and the difference is in the collateral fees of MIA
C29_Witness ==
    /\ last_op.op = "match_limit_call"
    /\ last_op.ok
    /\ FillsOfCalls(last_op.vops) /= {}
    /\ CallFillOf(last_op.vops).pays.amount > last_op.vops[1].receives.amount
    /\ dynamic_data[MIA].accumulated_collateral_fees
          = CallFillOf(last_op.vops).pays.amount - last_op.vops[1].receives.amount

\* ------------------------------------------- dust in match( call, settle )
\* the step is a call of match( call, settle )
MatchesSettle ==
    /\ op_count' = op_count + 1
    /\ last_op'.op = "match_call_settle"

\* what the call order would receive, and whether it would pay nothing for it
DustReceives ==
    Min(Min(settle_orders[last_op'.args.settle].balance.amount,
            last_op'.args.max_settlement),
        call_orders[last_op'.args.call].debt)

PaysNothing ==
    MulDown(Asset(DustReceives, MIA), last_op'.args.match_price).amount = 0

\* C30: when what the call order receives is worth nothing at the match
\* price: if it is the whole debt, the call order pays exactly 1 for it and is
\* closed; else if it is the whole balance of the settle order, the settle
\* order is cancelled and its balance refunded, 0 is returned and the call
\* order is unchanged; else 0 is returned and nothing changes. No fill of a
\* call order takes debt for a payment of nothing.
C30_DustRule ==
    [][MatchesSettle =>
        LET call_id == last_op'.args.call
            settle_id == last_op'.args.settle
            call == call_orders[call_id]
            settle == settle_orders[settle_id]
            vops == last_op'.vops
        IN  /\ last_op'.ok
            /\ \A k \in FillsOfCalls(vops) : vops[k].pays.amount > 0
            /\ call_id \in DOMAIN call_orders' /\ call_orders'[call_id].debt < call.debt
                  => call_orders'[call_id].collateral < call.collateral
            /\ PaysNothing =>
                  IF DustReceives = call.debt
                  THEN /\ call_id \notin DOMAIN call_orders'
                       /\ FillsOfCalls(vops) /= {}
                       /\ CallFillOf(vops).id = call_id
                       /\ CallFillOf(vops).pays = Asset(1, CORE)
                       /\ CallFillOf(vops).receives = Asset(call.debt, MIA)
                       /\ last_op'.ret = Asset(call.debt, MIA)
                  ELSE IF DustReceives = settle.balance.amount
                  THEN /\ last_op'.ret = Asset(0, MIA)
                       /\ call_orders' = call_orders
                       /\ settle_id \notin DOMAIN settle_orders'
                       /\ balance' = [balance EXCEPT ![settle.owner][MIA] =
                                          @ + settle.balance.amount]
                       /\ FillsOfCalls(vops) = {}
                  ELSE /\ last_op'.ret = Asset(0, MIA)
                       /\ vops = <<>>
                       /\ UNCHANGED dbvars]_vars

\* match( call, settle ) has closed alice's call order of 1 MIA for 1 CORE at
\* a price of 3 MIA for 1 CORE
C30_Witness ==
    /\ last_op.op = "match_call_settle"
    /\ last_op.ok
    /\ last_op.args.match_price = P(3, 1)
    /\ last_op.ret = Asset(1, MIA)
    /\ FillsOfCalls(last_op.vops) /= {}
    /\ CallFillOf(last_op.vops).pays = Asset(1, CORE)
    /\ CallFillOf(last_op.vops).receives = Asset(1, MIA)
    /\ CallId \notin DOMAIN call_orders

\* ----------------------------------------- the roles in check_call_orders
\* the step is a call of check_call_orders that matched without settling the
\* asset globally
ChecksCalls ==
    /\ op_count' = op_count + 1
    /\ last_op'.op = "check_call_orders"
    /\ last_op'.ok
    /\ ~has_settlement(bitasset_data'[MIA])

\* the limit orders of acc that the step filled for the first time
FirstFilled(vops, acc) ==
    {i \in DOMAIN limit_orders :
        /\ limit_orders[i].seller = acc
        /\ limit_orders[i].deferred_fee > 0
        /\ \E k \in LimitFills(vops) : vops[k].id = i}

\* C31 as stated: in check_call_orders the fill of the call order is recorded
\* with is_maker = true and the fill of the limit order with the taker role.
C31_CallIsMaker ==
    (last_op.op = "check_call_orders" /\ last_op.ok
        /\ ~has_settlement(bitasset_data[MIA])) =>
        /\ \A k \in FillsOfCalls(last_op.vops) : last_op.vops[k].is_maker
        /\ \A k \in LimitFills(last_op.vops) : ~last_op.vops[k].is_maker

\* C31: in check_call_orders every fill treats the call order as the taker and
\* the limit order as the maker: the call order's fill is recorded with
\* is_maker = false, the limit order's with is_maker = true, and the limit
\* order's deferred fee is settled in the maker role (the seller is refunded
\* the maker discount and the rest goes to the seller's pending fees).
C31_CallIsTaker ==
    [][ChecksCalls =>
        LET vops == last_op'.vops
            mdp == global_params.maker_fee_discount_percent
            refund(i) == calculate_percent(limit_orders[i].deferred_fee, mdp)
        IN  /\ \A k \in FillsOfCalls(vops) : ~vops[k].is_maker
            /\ \A k \in LimitFills(vops) : vops[k].is_maker
            /\ \A acc \in Traders :
                  statistics'[acc].pending_fees - statistics[acc].pending_fees
                      = Sum([i \in FirstFilled(vops, acc) |->
                                limit_orders[i].deferred_fee - refund(i)],
                            FirstFilled(vops, acc))]_vars

\* check_call_orders has filled alice's call order against bob's order, whose
\* deferred fee of 2 CORE was settled with the maker discount of 1 CORE
C31_Witness ==
    /\ last_op.op = "check_call_orders"
    /\ last_op.ok
    /\ ~has_settlement(bitasset_data[MIA])
    /\ \E k \in FillsOfCalls(last_op.vops) :
          last_op.vops[k].id = CallId /\ ~last_op.vops[k].is_maker
    /\ \E k \in LimitFills(last_op.vops) :
          last_op.vops[k].id = TakerId /\ last_op.vops[k].is_maker
    /\ statistics["bob"].pending_fees = 1

\* --------------------------------------------- rounding and the sanity check
\* the call order and the limit order check_call_orders pairs first
FrontCall == WeakestCall(call_orders, CORE, MIA)

FrontLimit ==
    Head(RangeByPrice(limit_orders,
                      margin_call_order_price(bitasset_data[MIA].current_feed,
                                              mcfr_of(bitasset_data[MIA]))))

\* the price the call order pays at against the front limit order
FrontCallPaysPrice ==
    LET feed == bitasset_data[MIA].current_feed
        ratio == margin_call_pays_ratio(feed, mcfr_of(bitasset_data[MIA]))
    IN  PriceTimesRatio(limit_orders[FrontLimit].sell_price, ratio.num, ratio.den)

\* usd_to_buy * call_pays_price > call_order.get_collateral() does not hold
SanityCheckPasses ==
    MulDown(Asset(call_orders[FrontCall].debt, MIA), FrontCallPaysPrice).amount
        <= call_orders[FrontCall].collateral

\* what the call-limited branch makes the call order pay for all of its debt
FrontCallPays ==
    MulUp(Asset(call_orders[FrontCall].debt, MIA), FrontCallPaysPrice).amount

\* the sanity check passes for the front pair of a margin call that would
\* close the call order: the call-limited branch of check_call_orders
CallLimitedFill ==
    /\ CallsOf(call_orders, CORE, MIA) # {}
    /\ RangeByPrice(limit_orders,
                    margin_call_order_price(bitasset_data[MIA].current_feed,
                                            mcfr_of(bitasset_data[MIA]))) # <<>>
    /\ ~has_settlement(bitasset_data[MIA])
    /\ ~PriceLT(bitasset_data[MIA].current_maintenance_collateralization,
                collateralization(call_orders[FrontCall]))
    /\ ~call_orders[FrontCall].target_collateral_ratio.valid
    /\ SanityCheckPasses
    /\ call_orders[FrontCall].debt <= limit_orders[FrontLimit].for_sale

\* C32: in check_call_orders, when the sanity check passes for the call order
\* and the limit order at the front (the debt times call_pays_price, rounded
\* down, is at most the collateral), the collateral the call-limited fill
\* takes from the call order (rounded up) is at most its collateral, so that
\* fill_call_order's assertion collateral >= pays does not fail.  A call of
\* check_call_orders that throws leaves the database as it was, so the state
\* after it still shows the pair it met.
C32_FillWithinCollateral ==
    (/\ last_op.op = "check_call_orders"
     /\ last_op.args.enable_black_swan
     /\ ~last_op.ok
     /\ CallLimitedFill)
        => FrontCallPays <= call_orders[FrontCall].collateral

\* ------------------------------------------- deferred fees are paid once
\* order 1 is filled by a match that succeeds
FillsOrder ==
    /\ op_count' = op_count + 1
    /\ last_op'.op = "match"
    /\ last_op'.ok

\* order 1 is cancelled
CancelsOrder ==
    /\ op_count' = op_count + 1
    /\ last_op'.op = "cancel_limit_order"
    /\ last_op'.ok

\* order 1 has been filled before: it has less for sale than it was created with
FilledBefore1 == 1 \in DOMAIN limit_orders /\ limit_orders[1].for_sale < 10

\* the fill_order virtual operation of order 1 in the step
FillOf1 == CHOOSE k \in DOMAIN last_op'.vops :
               last_op'.vops[k].type = "fill_order" /\ last_op'.vops[k].id = 1

\* all the MIA held as market fees: vesting balances and accumulated fees
MarketFeesHeld(vest, dyn) ==
    Sum([acc \in Accounts |-> vest[acc][MIA]], Accounts) + dyn[MIA].accumulated_fees

\* C33: the deferred fees of a limit order are consumed once.  A fill that
\* leaves the order on the book leaves it with deferred_fee = 0 and
\* deferred_paid_fee = 0; at a later fill the seller is refunded nothing, the
\* seller's statistics are paid no fee, the fee pool gets nothing back and
\* accumulated_fees gets the market fee of the fill alone; a later cancel
\* returns what is left for sale and nothing else, whatever the cancel fee.
C33_ConsumedOnce ==
    [][/\ FillsOrder =>
            \A i \in {1, last_op'.args.other} \cap DOMAIN limit_orders' :
                /\ limit_orders'[i].deferred_fee = 0
                /\ limit_orders'[i].deferred_paid_fee.amount = 0
       /\ (FillsOrder /\ FilledBefore1) =>
            LET fill == last_op'.vops[FillOf1]
                second == limit_orders[last_op'.args.other]
            IN  /\ statistics'["alice"].pending_fees = statistics["alice"].pending_fees
                /\ balance'["alice"][CORE] = balance["alice"][CORE]
                /\ balance'["alice"][MIA]
                      = balance["alice"][MIA] + fill.receives.amount - fill.fee.amount
                /\ second.deferred_paid_fee.amount = 0 =>
                      /\ dynamic_data'[MIA].fee_pool = dynamic_data[MIA].fee_pool
                      /\ MarketFeesHeld(vesting', dynamic_data')
                            = MarketFeesHeld(vesting, dynamic_data) + fill.fee.amount
       /\ (CancelsOrder /\ FilledBefore1) =>
            /\ balance'["alice"][CORE]
                  = balance["alice"][CORE] + limit_orders[1].for_sale
            /\ balance'["alice"][MIA] = balance["alice"][MIA]
            /\ statistics'["alice"].pending_fees = statistics["alice"].pending_fees
            /\ dynamic_data'[MIA] = dynamic_data[MIA]
            /\ dynamic_data'[CORE] = dynamic_data[CORE]]_vars

\* order 1, created with 100 core deferred and 50 MIA paid, was filled twice
\* as maker at a discount of 2000 and then cancelled at a cancel fee of 30: of
\* the 50 MIA the seller got back 10 and accumulated_fees 40, once, besides
\* the market fees of 2 + 2
C33_Witness ==
    /\ op_count = 3
    /\ last_op.op = "cancel_limit_order"
    /\ last_op.ok
    /\ last_op.args.create_virtual_op
    /\ ~last_op.args.skip_cancel_fee
    /\ global_params.cancel_fee = 30
    /\ global_params.maker_fee_discount_percent = 2000
    /\ statistics["alice"].pending_fees = 80
    /\ dynamic_data[MIA].fee_pool = 20
    /\ balance["alice"][CORE] = InitBalance + 2

\* ------------------------------------- where a fee paid in MIA ends up
\* the orders the step fills whose creation fee was paid in MIA
PaidOrders == {i \in {1, last_op'.args.other} : limit_orders[i].deferred_paid_fee.amount > 0}

\* order 1 is filled as last_op'.args.is_maker says, the other order the
\* other way
FilledAsMaker(i) == IF i = 1 THEN last_op'.args.is_maker ELSE ~last_op'.args.is_maker

\* the maker refund of the paid fee and the share of the deferred fee that
\* returns to the fee pool with it
PaidRefund(i) ==
    IF FilledAsMaker(i) /\ global_params.maker_fee_discount_percent > 0
    THEN calculate_percent(limit_orders[i].deferred_paid_fee.amount,
                           global_params.maker_fee_discount_percent)
    ELSE 0

PoolRefund(i) ==
    IF PaidRefund(i) > 0
    THEN calculate_percent(limit_orders[i].deferred_fee,
                           global_params.maker_fee_discount_percent)
    ELSE 0

VestedMIA(vest) == Sum([acc \in Accounts |-> vest[acc][MIA]], Accounts)

\* C34 as stated: at the first fill of an order whose fee was paid in MIA,
\* what is left of the paid fee is added to the accumulated fees of the asset
\* the order receives, and the rest of the deferred fee goes to the seller's
\* statistics.
C34_ToReceivedAsset ==
    [][FillsOrder =>
         \A i \in PaidOrders :
            LET order == limit_orders[i]
                recv == receive_asset_id(order)
            IN  /\ dynamic_data'[recv].accumulated_fees
                      >= dynamic_data[recv].accumulated_fees
                            + order.deferred_paid_fee.amount - PaidRefund(i)
                /\ statistics'[order.seller].pending_fees
                      = statistics[order.seller].pending_fees
                            + order.deferred_fee - PoolRefund(i)]_vars

\* C34: at the first fill of a limit order whose creation fee was paid in
\* another asset than core (MIA), what is left of deferred_paid_fee after the
\* maker refund is added to the accumulated_fees of the asset the fee was paid
\* in, which need not be the asset the order receives, and what is left of the
\* core deferred_fee after the fee pool's refund goes to the seller's
\* statistics through pay_fee.  Besides the paid fees MIA's accumulated_fees
\* get the part of the market fee of the fill that is not vested.
C34_ToPaidAsset ==
    [][FillsOrder =>
         LET fill == last_op'.vops[FillOf1]
             vested == VestedMIA(vesting') - VestedMIA(vesting)
         IN  /\ \A i \in PaidOrders :
                   LET order == limit_orders[i]
                   IN  /\ order.deferred_paid_fee.asset_id = MIA
                       /\ statistics'[order.seller].pending_fees
                             = statistics[order.seller].pending_fees
                                   + order.deferred_fee - PoolRefund(i)
             /\ 0 <= vested /\ vested <= fill.fee.amount
             /\ dynamic_data'[MIA].accumulated_fees
                   = dynamic_data[MIA].accumulated_fees
                        + Sum([i \in PaidOrders |->
                                  limit_orders[i].deferred_paid_fee.amount
                                      - PaidRefund(i)], PaidOrders)
                        + fill.fee.amount - vested
             /\ dynamic_data'[MIA].fee_pool
                   = dynamic_data[MIA].fee_pool
                        + Sum([i \in PaidOrders |-> PoolRefund(i)], PaidOrders)
             /\ dynamic_data'[CORE].accumulated_fees
                   = dynamic_data[CORE].accumulated_fees]_vars

\* bob's order 2, which sells MIA for CORE and carries 7 core deferred and
\* 3 MIA paid, has been filled as maker at a discount of 5000 by alice's
\* order, which carries a fee paid in core: 1 MIA went back to bob, 2 MIA to
\* MIA's accumulated_fees next to 1 MIA of market fee, and nothing to CORE's
C34_Witness ==
    /\ op_count = 1
    /\ last_op.op = "match"
    /\ last_op.ok
    /\ last_op.args.other = 2
    /\ ~last_op.args.is_maker
    /\ global_params.maker_fee_discount_percent = 5000
    /\ balance["bob"][MIA] = 1
    /\ statistics["bob"].pending_fees = 4
    /\ dynamic_data[MIA].fee_pool = 3
    /\ dynamic_data[MIA].accumulated_fees = 3
    /\ dynamic_data[CORE].accumulated_fees = 0

\* ----------------------------------- rewards to accounts not authorized
\* the parts of the market fee of a call of pay_market_fees with arguments a,
\* from the options in force
MarketFeeOf(a) == calculate_market_fee(MIA, Asset(a.receives, MIA), a.is_maker).fee

NetworkFeeOf(a) ==
    IF MarketFeeOf(a) > 0 /\ global_params.market_fee_network_percent > 0
    THEN calculate_percent(MarketFeeOf(a), global_params.market_fee_network_percent)
    ELSE 0

IssuerFeesOf(a) == MarketFeeOf(a) - NetworkFeeOf(a)

\* the reward for the seller's registrar and referrer, whether paid or not
RewardOf(a) ==
    LET o == asset_options[MIA]
        white_list == o.whitelist_market_fee_sharing
    IN  IF /\ a.seller /= "null"
           /\ \/ ~white_list.valid
              \/ white_list.value = {}
              \/ accounts[a.seller].registrar \in white_list.value
           /\ o.reward_percent.valid
        THEN calculate_percent(IssuerFeesOf(a), o.reward_percent.value)
        ELSE 0

\* the referrer's slice of the reward
ReferrerSliceOf(a) ==
    calculate_percent(RewardOf(a), accounts[a.seller].referrer_rewards_percentage)

\* pay_market_fees has a reward to share between alice, the registrar of the
\* seller, and the seller's referrer
SharesReward ==
    /\ last_op'.op = "pay_market_fees"
    /\ last_op'.ok
    /\ last_op'.args.seller = "bob"
    /\ RewardOf(last_op'.args) > 0

Vested(acc) == vesting'[acc][MIA] - vesting[acc][MIA]
Accumulated == dynamic_data'[MIA].accumulated_fees - dynamic_data[MIA].accumulated_fees

\* C35 as stated: the slice of a referrer or registrar who is not authorized
\* to hold the asset is paid to neither of them and is added to the asset's
\* accumulated_fees, and what is due to the temp account goes to the
\* committee account.
C35_SliceForfeited ==
    [][SharesReward =>
        LET a == last_op'.args
            R == RewardOf(a)
            S == ReferrerSliceOf(a)
            I == IssuerFeesOf(a)
        IN  /\ ~authorized["alice"][MIA] =>
                  /\ Vested("alice") = 0
                  /\ Accumulated >= I - S
            /\ (/\ authorized["alice"][MIA]
                /\ accounts["bob"].referrer = "issuer"
                /\ ~authorized["issuer"][MIA]
                /\ S > 0) =>
                  /\ Vested("issuer") = 0
                  /\ Vested("alice") = R - S
                  /\ Accumulated = I - R + S
            /\ (/\ authorized["alice"][MIA]
                /\ accounts["bob"].referrer = GRAPHENE_TEMP_ACCOUNT) =>
                  /\ Vested(GRAPHENE_TEMP_ACCOUNT) = 0
                  /\ Vested(GRAPHENE_COMMITTEE_ACCOUNT) = NetworkFeeOf(a) + S]_vars

\* C35: in pay_market_fees, when the registrar is not authorized to hold the
\* received asset no reward is paid at all, to the registrar or to the
\* referrer, and the issuer's whole share is added to accumulated_fees; when
\* the registrar is authorized and the referrer is not, the referrer is paid
\* nothing and its slice stays with the registrar, who is paid the whole
\* reward, so that accumulated_fees get the issuer's share less the reward;
\* what is due to the temp account is deposited to the committee account.
C35_Unauthorized ==
    [][SharesReward =>
        LET a == last_op'.args
            R == RewardOf(a)
            S == ReferrerSliceOf(a)
            I == IssuerFeesOf(a)
        IN  /\ ~authorized["alice"][MIA] =>
                  /\ Vested("alice") = 0
                  /\ Vested("issuer") = 0
                  /\ Vested(GRAPHENE_COMMITTEE_ACCOUNT) = NetworkFeeOf(a)
                  /\ Accumulated = I
            /\ (/\ authorized["alice"][MIA]
                /\ accounts["bob"].referrer = "issuer"
                /\ ~authorized["issuer"][MIA]) =>
                  /\ Vested("issuer") = 0
                  /\ Vested("alice") = R
                  /\ Accumulated = I - R
            /\ (/\ authorized["alice"][MIA]
                /\ accounts["bob"].referrer = GRAPHENE_TEMP_ACCOUNT) =>
                  /\ Vested(GRAPHENE_TEMP_ACCOUNT) = 0
                  /\ Vested(GRAPHENE_COMMITTEE_ACCOUNT) = NetworkFeeOf(a) + S
                  /\ Vested("alice") = R - S
                  /\ Accumulated = I - R]_vars

\* bob sold for 16 MIA as maker: of the market fee of 8 the network got 4, and
\* of the reward of 2 the referrer, the issuer, who may not hold MIA, got
\* nothing and alice, the registrar, all of it
C35_Witness ==
    /\ op_count = 1
    /\ last_op.op = "pay_market_fees" /\ last_op.ok
    /\ last_op.args.seller = "bob" /\ last_op.args.receives = 16
    /\ accounts["bob"].referrer = "issuer"
    /\ accounts["bob"].referrer_rewards_percentage = 5000
    /\ authorized["alice"][MIA] /\ ~authorized["issuer"][MIA]
    /\ vesting[GRAPHENE_COMMITTEE_ACCOUNT][MIA] = 4
    /\ vesting["issuer"][MIA] = 0
    /\ vesting["alice"][MIA] = 2
    /\ dynamic_data[MIA].accumulated_fees = 2

\* ------------------------------------------------ the market fee charged
\* C36: calculate_market_fee returns 0 when the asset does not charge market
\* fees; otherwise it returns the lesser of calculate_percent(R, p) and
\* max_market_fee, where p is market_fee_percent for a maker and, for a
\* taker, taker_fee_percent when it is set and market_fee_percent when it is
\* not; with percentages of at most 100% the fee is between 0 and R.
C36_MarketFee ==
    last_op.op = "calculate_market_fee" =>
        LET o == asset_options[MIA]
            R == last_op.args.amount
            p == IF last_op.args.is_maker THEN o.market_fee_percent
                 ELSE IF o.taker_fee_percent.valid THEN o.taker_fee_percent.value
                 ELSE o.market_fee_percent
            percent_fee == (R * p) \div GRAPHENE_100_PERCENT
        IN  /\ last_op.ok
            /\ ~o.charge_market_fee => last_op.ret = 0
            /\ o.charge_market_fee =>
                  last_op.ret = IF percent_fee <= o.max_market_fee THEN percent_fee
                                ELSE o.max_market_fee
            /\ 0 <= last_op.ret /\ last_op.ret <= R

\* a taker of 16 was charged the taker's 50%, not the maker's 25%; and a
\* maker's fee of 25% of 39999 was 9999
C36_Witness ==
    /\ last_op.op = "calculate_market_fee"
    /\ asset_options[MIA].charge_market_fee
    /\ asset_options[MIA].market_fee_percent = 2500
    /\ asset_options[MIA].taker_fee_percent = Some(5000)
    /\ asset_options[MIA].max_market_fee = GRAPHENE_MAX_SHARE_SUPPLY
    /\ \/ (~last_op.args.is_maker /\ last_op.args.amount = 16 /\ last_op.ret = 8)
       \/ (last_op.args.is_maker /\ last_op.args.amount = 39999 /\ last_op.ret = 9999)

\* ------------------------------------------------------ calculate_percent
\* C37: calculate_percent(value, percent) computes value * percent in 128
\* bits without wrapping, for every amount from 0 to the greatest int64_t and
\* so for every amount up to GRAPHENE_MAX_SHARE_SUPPLY, its result is that
\* product divided by 10000 and rounded down, and it fails with the overflow
\* assertion exactly when that quotient exceeds GRAPHENE_MAX_SHARE_SUPPLY.
\* Where the product fits the checker's integers the result is the one the
\* rest of the model computes with.
C37_CalculatePercent ==
    last_op.op = "calculate_percent" =>
        LET value == last_op.args.value
            percent == last_op.args.percent
            product == Trim(MulAdd(value, percent, 0))
            q == last_op.ret.value
            below == MulAdd(q, GRAPHENE_100_PERCENT, 0)
            above == MulAdd(q, GRAPHENE_100_PERCENT, GRAPHENE_100_PERCENT)
        IN  /\ LimbLT(product, TwoTo128)
            /\ last_op.ret.intermediate = product
            /\ LimbLE(Trim(below), product)
            /\ LimbLT(product, Trim(above))
            /\ last_op.ok <=> LimbLE(q, ToLimbs(GRAPHENE_MAX_SHARE_SUPPLY))
            /\ Len(value) <= 1 =>
                  /\ FromLimbs(q) = calculate_percent(FromLimbs(value), percent)
                  /\ last_op.ok = calculate_percent_ok(FromLimbs(value), percent)

\* 152590219 at 65535 gives exactly GRAPHENE_MAX_SHARE_SUPPLY and succeeds;
\* one more gives more and fails
C37_Witness ==
    /\ last_op.op = "calculate_percent"
    /\ last_op.args.percent = 65535
    /\ \/ /\ last_op.args.value = ToLimbs(152590219)
          /\ last_op.ok
          /\ last_op.ret.value = ToLimbs(GRAPHENE_MAX_SHARE_SUPPLY)
       \/ /\ last_op.args.value = ToLimbs(152590220)
          /\ ~last_op.ok

\* ------------------------------------------ the call loop of apply_order
\* call order id is above the maintenance collateralization of its asset
AboveMaintenance(id) ==
    PriceGT(collateralization(call_orders[id]),
            bitasset_data[MIA].current_maintenance_collateralization)

\* the last of the fills of call orders among vops
LastCallFill(vops) ==
    CHOOSE k \in FillsOfCalls(vops) : \A j \in FillsOfCalls(vops) : j <= k

CheckedCalls ==
    /\ last_op.op = "check_call_orders"
    /\ last_op.ok
    /\ ~has_settlement(bitasset_data[MIA])

\* the call order and the limit order of the iteration whose fill of the call
\* order is vops[k]; the fill of the limit order follows it
IterationOf(vops, k) == <<vops[k].id, vops[k + 1].id>>

Crossed(lim) == \E i, j \in DOMAIN lim : InRange(lim[i], lim[j])

\* C40: after apply_order on a new order put on a book that was not crossed,
\* no two limit orders on opposite sides of a market have prices that overlap
C40_BookNotCrossed ==
    (last_op.op = "apply_order" /\ last_op.ok) => ~Crossed(limit_orders)

\* apply_order has filled both of alice's orders and left a part of bob's new
\* order on the book
C40_Witness ==
    /\ last_op.op = "apply_order"
    /\ last_op.ok
    /\ ~Crossed(limit_orders)
    /\ DOMAIN limit_orders = {TakerId}
    /\ {MakerId, SecondMakerId} \subseteq
           {last_op.vops[k].id : k \in MakerFills(last_op.vops)}
====
